---- MODULE Spec2Model ----
(***************************************************************************)
(* Model of telegram_bot.py: the question sampler                          *)
(* (QuestionManager.pick_round_questions), the grading of answers          *)
(* (answer_callback, text_router) and the round kept in context.user_data  *)
(* (start_round, send_next_question, apply_answer_result, finish_round).   *)
(*                                                                         *)
(* Representation.                                                         *)
(*  - A Python str is a sequence of characters; a character is a TLA+      *)
(*    string: one-letter strings are ASCII characters, longer names are    *)
(*    the Unicode characters they name ("alef", "fatha", ...).             *)
(*  - A question id is a natural number; 0 is the falsy id ("" or null).   *)
(*  - A dict is a function whose DOMAIN is the set of keys it holds.       *)
(*  - The handlers are operators from a world record (user_data, the       *)
(*    tables, the rate limiter, the messages sent) to the world after the  *)
(*    handler has returned; python-telegram-bot runs the handlers of an Application    *)
(*    built without concurrent_updates one update after the other, so one  *)
(*    handler execution is one step.                                       *)
(***************************************************************************)
EXTENDS Integers, Sequences, FiniteSets, TLC

VARIABLES
    buckets,         \* QuestionManager._buckets_cache: chapter -> list of items
    user_data,       \* context.user_data of every user: user -> dict
    seen_questions,  \* table seen_questions: user -> set of qids
    rounds,          \* table rounds: the rows save_round_result inserted
    outbox,          \* the messages the last handler execution sent
    clock,           \* datetime.now(), as a logical clock
    picked,          \* <<the list the last sampler call returned>>, <<>> before it
    user_attempts,   \* rate_limiter.user_attempts: user -> list of attempt times
    users,           \* table users: user -> row (the timestamps left out)
    pending_names,   \* table pending_names: user -> row (the timestamps left out)
    normalized,      \* <<text, result>> of the last call of normalize_arabic alone
    failed_sends,    \* number of sends the transport has refused (telegram.error)
    admitted,        \* user -> the latest times at which a play_round request reached start_round
    notifications    \* the name requests in the admins' chats: [to, uid, full_name]

vars == <<buckets, user_data, seen_questions, rounds, outbox, clock, picked,
          user_attempts, users, pending_names, normalized,
          failed_sends, admitted, notifications>>

\* what the model keeps of the world outside the program
observed == <<failed_sends, admitted, notifications>>

(***************************************************************************)
(* Bounds of the model.                                                    *)
(***************************************************************************)
MaxCatalog == 6      \* size of the item pool the round catalogs are drawn from
NumSeeds == 2        \* number of random-generator states a shuffle is run from
MaxClock == 2        \* number of start_round calls in one behaviour
MaxPerChapter == 9   \* largest bucket of a generated sampler catalog
MaxWrong == 2        \* wrong answers a player of a long round gives
MaxAnswered == 1     \* answers a player of IsolationSpec gives in one round
MaxLen == 3          \* length of the texts normalize_arabic is applied to
MaxFailures == 2     \* sends the transport refuses in one behaviour
MaxTime == 95        \* seconds of wall-clock time a behaviour of RateSpec covers
MaxItems == 3        \* items of a questions file of ClassifySpec

(***************************************************************************)
(* Configuration (Config._load_config, with the environment's defaults).   *)
(***************************************************************************)
ROUND_SIZE == 20
CHAPTERS == <<"ch1", "ch2", "ch3", "ch4", "ch5">>
BONUS_CONFIG == [t \in {3, 5, 10} |-> CASE t = 3 -> 1 [] t = 5 -> 2 [] t = 10 -> 3]
MAINTENANCE_ON == FALSE
MIN_ROUND == 5
RATE_LIMIT_ATTEMPTS == 10
RATE_LIMIT_WINDOW == 60
BAD_WORDS == {}                            \* os.getenv("BAD_WORDS", "")

Users == {1, 2}

(***************************************************************************)
(* Sequences and dicts.                                                    *)
(***************************************************************************)
Range(s) == {s[i] : i \in 1..Len(s)}
Min(a, b) == IF a < b THEN a ELSE b
Take(s, n) == SubSeq(s, 1, Min(n, Len(s)))
Drop(s, n) == SubSeq(s, Min(n, Len(s)) + 1, Len(s))
Remove(s, j) == SubSeq(s, 1, j - 1) \o SubSeq(s, j + 1, Len(s))
Contains(s, x) == \E i \in 1..Len(s) : s[i] = x

RECURSIVE Concat(_)
Concat(ss) == IF ss = <<>> THEN <<>> ELSE Head(ss) \o Concat(Tail(ss))

Get(d, k, default) == IF k \in DOMAIN d THEN d[k] ELSE default
Update(d, e) == [k \in DOMAIN d \cup DOMAIN e |-> IF k \in DOMAIN e THEN e[k] ELSE d[k]]
Pop(d, ks) == [k \in DOMAIN d \ ks |-> d[k]]
EmptyDict == [k \in {} |-> 0]

(***************************************************************************)
(* str methods and normalize_arabic.                                       *)
(***************************************************************************)
Whitespace == {" ", "\n"}
Digits == {"0", "1"}
Diacritics == {"fatha", "shadda", "superscript_alef", "tatweel"}
AlefVariants == {"alef_hamza_above", "alef_hamza_below", "alef_madda"}
ArabicLetters == {"hamza", "alef", "beh", "teh_marbuta", "hah", "khah", "zain", "sad",
                  "tah", "ain", "ghain", "lam", "meem", "noon", "heh", "waw",
                  "reh", "qaf", "kaf",
                  "teh", "theh", "jeem", "dal", "thal", "seen", "sheen", "dad", "zah",
                  "feh", "yeh_hamza",
                  "alef_maksura", "yeh", "arabic_comma"}
                 \cup AlefVariants
ArabicBlock == ArabicLetters \cup Diacritics   \* the characters of U+0600-U+06FF

RECURSIVE LStrip(_)
LStrip(s) == IF s # <<>> /\ Head(s) \in Whitespace THEN LStrip(Tail(s)) ELSE s
RECURSIVE RStrip(_)
RStrip(s) == IF s # <<>> /\ s[Len(s)] \in Whitespace
             THEN RStrip(SubSeq(s, 1, Len(s) - 1)) ELSE s
Strip(s) == RStrip(LStrip(s))

LowerLetters == <<"a", "b", "c", "d", "e", "f", "g", "h", "i", "j", "k", "l", "m",
                  "n", "o", "p", "q", "r", "s", "t", "u", "v", "w", "x", "y", "z">>
UpperLetters == <<"A", "B", "C", "D", "E", "F", "G", "H", "I", "J", "K", "L", "M",
                  "N", "O", "P", "Q", "R", "S", "T", "U", "V", "W", "X", "Y", "Z">>
AsciiLetters == Range(LowerLetters) \cup Range(UpperLetters)
UpperChar(c) == IF c \in Range(LowerLetters)
                THEN UpperLetters[CHOOSE i \in 1..26 : LowerLetters[i] = c] ELSE c
LowerChar(c) == IF c \in Range(UpperLetters)
                THEN LowerLetters[CHOOSE i \in 1..26 : UpperLetters[i] = c] ELSE c
Upper(s) == [i \in 1..Len(s) |-> UpperChar(s[i])]
Lower(s) == [i \in 1..Len(s) |-> LowerChar(s[i])]

\* re.sub(r"\s+", " ", text)
RECURSIVE CollapseSpaces(_)
CollapseSpaces(s) ==
    IF s = <<>> THEN <<>>
    ELSE IF Head(s) \in Whitespace
         THEN <<" ">> \o CollapseSpaces(LStrip(s))
         ELSE <<Head(s)>> \o CollapseSpaces(Tail(s))

FoldChar(c) == CASE c \in AlefVariants -> "alef"
                 [] c = "alef_maksura" -> "yeh"
                 [] c = "teh_marbuta" -> "heh"
                 [] OTHER -> c

\* faulty variant: the text is not trimmed after the replacements
normalize_arabic_no_trim(text) ==
    IF text = <<>> THEN <<>>
    ELSE LET stripped == Strip(text)
             nodiac == SelectSeq(stripped, LAMBDA c : c \notin Diacritics)
             kept == [i \in 1..Len(nodiac) |->
                        IF nodiac[i] \in ArabicBlock \cup Digits \cup Whitespace
                        THEN nodiac[i] ELSE " "]
             spaced == CollapseSpaces(kept)
         IN [i \in 1..Len(spaced) |-> FoldChar(spaced[i])]

normalize_arabic(text) ==
    IF text = <<>> THEN <<>>
    ELSE LET stripped == Strip(text)
             nodiac == SelectSeq(stripped, LAMBDA c : c \notin Diacritics)
             kept == [i \in 1..Len(nodiac) |->
                        IF nodiac[i] \in ArabicBlock \cup Digits \cup Whitespace
                        THEN nodiac[i] ELSE " "]
             spaced == Strip(CollapseSpaces(kept))
         IN [i \in 1..Len(spaced) |-> FoldChar(spaced[i])]

\* strip_al of text_router: re.sub(r"^ال", "", s)
strip_al(s) == IF Len(s) >= 2 /\ s[1] = "alef" /\ s[2] = "lam" THEN SubSeq(s, 3, Len(s)) ELSE s

\* str.split(): the maximal runs of non-whitespace characters
RECURSIVE Split(_)
Split(s) ==
    LET t == LStrip(s)
        n == IF \E i \in 1..Len(t) : t[i] \in Whitespace
             THEN (CHOOSE i \in 1..Len(t) :
                      t[i] \in Whitespace /\ \A j \in 1..(i - 1) : t[j] \notin Whitespace) - 1
             ELSE Len(t)
    IN IF t = <<>> THEN <<>> ELSE <<SubSeq(t, 1, n)>> \o Split(SubSeq(t, n + 1, Len(t)))

\* `a in b` of two strs
IsInfix(a, b) == \E i \in 0..(Len(b) - Len(a)) : SubSeq(b, i + 1, i + Len(a)) = a

is_arabic_only_name(name0) ==
    /\ name0 # <<>>
    /\ LET name == Strip(name0)
       IN /\ \A i \in 1..Len(name) : name[i] \notin AsciiLetters
          /\ name # <<>>
          /\ \A i \in 1..Len(name) : name[i] \in ArabicBlock \cup Whitespace

looks_like_real_name(name0) ==
    LET name == Strip(name0)
        parts == SelectSeq(Split(name), LAMBDA p : Len(p) > 1)
        n_norm == normalize_arabic(Lower(name))
    IN /\ ~(Len(name) < 6 \/ Len(name) > 30)
       /\ is_arabic_only_name(name)
       /\ ~(Len(parts) < 2)
       /\ ~\E bw \in BAD_WORDS :
              normalize_arabic(Lower(bw)) # <<>> /\ IsInfix(normalize_arabic(Lower(bw)), n_norm)
       /\ ~(Cardinality(Range(SelectSeq(name, LAMBDA c : c # " "))) < 3)

(***************************************************************************)
(* Values of the loosely typed catalog fields (None, a bool, a str).       *)
(***************************************************************************)
None == [t |-> "none", b |-> FALSE, s |-> <<>>]
Bool(b) == [t |-> "bool", b |-> b, s |-> <<>>]
Str(s) == [t |-> "str", b |-> FALSE, s |-> s]
PyStr(raw) == CASE raw.t = "str" -> raw.s
                [] raw.t = "bool" -> IF raw.b THEN <<"T", "r", "u", "e">>
                                              ELSE <<"F", "a", "l", "s", "e">>
                [] OTHER -> <<"N", "o", "n", "e">>
OrEmpty(raw) == IF raw.t = "str" THEN raw.s ELSE <<>>   \* (x or "") for a str or None

TrueWords == {<<"sad", "hah">>, <<"sad", "hah", "yeh", "hah">>, <<"sad">>,
              <<"noon", "ain", "meem">>, <<"alef", "yeh", "waw", "heh">>}
FalseWords == {<<"khah", "tah", "alef">>, <<"khah", "tah", "alef_hamza_above">>,
               <<"ghain", "lam", "tah">>, <<"lam", "alef">>, <<"lam", "alef", "hamza">>}

\* parse_tf_answer: "none" stands for None, otherwise the bool
parse_tf_answer(raw) ==
    IF raw.t = "none" THEN None
    ELSE IF raw.t = "bool" THEN raw
    ELSE LET s == Lower(Strip(PyStr(raw)))
             s_norm == normalize_arabic(s)
         IN IF s \in {<<"t", "r", "u", "e">>, <<"1">>} \/ s_norm \in TrueWords THEN Bool(TRUE)
            ELSE IF s \in {<<"f", "a", "l", "s", "e">>, <<"0">>} \/ s_norm \in FalseWords
                 THEN Bool(FALSE)
                 ELSE None
Truthy(raw) == raw.t = "bool" /\ raw.b

(***************************************************************************)
(* The catalog. An item of the questions file, after _load_questions has   *)
(* given it an id and _build_chapter_buckets its chapter.                  *)
(***************************************************************************)
Item(id, type, chapter, text, correct, answer, term) ==
    [id |-> id, type |-> type, chapter |-> chapter, text |-> text,
     options |-> IF type = "mcq" THEN {"A", "B"} ELSE {},
     correct |-> correct, answer |-> answer, term |-> term]

AlGhaz == <<"alef", "lam", "ghain", "alef", "zain">>
Khata == <<"khah", "tah", "alef_hamza_above">>

\* The items the catalogs of the round specifications are drawn from.
PoolItem(i) ==
    CASE i % 8 = 1 -> Item(i, "mcq", "ch1", i, Str(<<"A">>), None, <<>>)
      [] i % 8 = 2 -> Item(i, "mcq", "ch1", i, Str(<<" ", "b">>), None, <<>>)
      [] i % 8 = 3 -> Item(i, "tf", "ch2", i, None, Bool(TRUE), <<>>)
      [] i % 8 = 4 -> Item(i, "term", "ch3", i, None, None, AlGhaz)
      [] i % 8 = 5 -> Item(i, "none", "ch2", i, None, None, <<>>)
      [] i % 8 = 6 -> Item(i, "tf", "ch4", i, None, Str(Khata), <<>>)
      [] i % 8 = 7 -> Item(i, "mcq", "ch5", i, Str(<<"A">>), None, <<>>)
      [] OTHER -> Item(i, "term", "ch3", i, None, None, <<"sad", "lam", "beh">>)

\* the questions file holding the pool items idx among the first n, in order
RECURSIVE PoolItems(_, _)
PoolItems(idx, n) ==
    IF n = 0 THEN <<>>
    ELSE PoolItems(idx, n - 1) \o (IF n \in idx THEN <<PoolItem(n)>> ELSE <<>>)

\* _build_chapter_buckets: every chapter has a bucket, in file order
_build_chapter_buckets(items) ==
    [c \in Range(CHAPTERS) |-> SelectSeq(items, LAMBDA q : q.chapter = c)]

RoundCatalogs ==
    {_build_chapter_buckets(PoolItems(idx, MaxCatalog)) :
        idx \in SUBSET (1..MaxCatalog)}

(***************************************************************************)
(* QuestionManager.pick_round_questions.  random.shuffle is a function of  *)
(* the generator's state: shuffle(s, r) is the permutation drawn in state  *)
(* r, NextRand(r) the state the generator is left in.                      *)
(***************************************************************************)
NextRand(r) == (5 * r + 3) % 16

RECURSIVE shuffle(_, _)
shuffle(s, r) ==
    IF Len(s) <= 1 THEN s
    ELSE LET n == Len(s)
             j == (r % n) + 1
         IN <<s[j]>> \o shuffle(Remove(s, j), (r \div n) + (r % n))

target_per_chapter == ROUND_SIZE \div Len(CHAPTERS)

\* faulty variant: no share per chapter, each chapter gives all it can until
\* the round is full
RECURSIVE ChapterLoop_greedy(_, _, _, _)
ChapterLoop_greedy(bk, seen, k, acc) ==
    IF k > Len(CHAPTERS) THEN acc
    ELSE LET pool == Get(bk, CHAPTERS[k], <<>>)
             unseen == shuffle(SelectSeq(pool, LAMBDA q : q.id \notin seen), acc.rng)
             take == Min(ROUND_SIZE - Len(acc.chosen), Len(unseen))
         IN ChapterLoop_greedy(bk, seen, k + 1,
                [chosen |-> acc.chosen \o Take(unseen, take),
                 leftovers |-> acc.leftovers \o Drop(unseen, take),
                 rng |-> NextRand(acc.rng)])

\* lines 354-361: acc = [chosen, leftovers, rng]
RECURSIVE ChapterLoop(_, _, _, _)
ChapterLoop(bk, seen, k, acc) ==
    IF k > Len(CHAPTERS) THEN acc
    ELSE LET pool == Get(bk, CHAPTERS[k], <<>>)
             unseen == shuffle(SelectSeq(pool, LAMBDA q : q.id \notin seen), acc.rng)
             take == Min(target_per_chapter, Len(unseen))
         IN ChapterLoop(bk, seen, k + 1,
                [chosen |-> acc.chosen \o Take(unseen, take),
                 leftovers |-> acc.leftovers \o Drop(unseen, take),
                 rng |-> NextRand(acc.rng)])

\* lines 364-367
LeftoverTopUp(acc) ==
    IF Len(acc.chosen) < ROUND_SIZE
    THEN LET leftovers == shuffle(acc.leftovers, acc.rng)
             need == ROUND_SIZE - Len(acc.chosen)
         IN [acc EXCEPT !.chosen = acc.chosen \o Take(leftovers, need),
                        !.rng = NextRand(acc.rng)]
    ELSE acc

\* lines 376-381
RECURSIVE TopUpLoop(_, _, _, _)
TopUpLoop(all_items, seen, chosen, need) ==
    IF all_items = <<>> THEN chosen
    ELSE LET item == Head(all_items)
         IN IF item.id \notin seen /\ ~Contains(chosen, item)
            THEN IF need - 1 <= 0 THEN Append(chosen, item)
                 ELSE TopUpLoop(Tail(all_items), seen, Append(chosen, item), need - 1)
            ELSE TopUpLoop(Tail(all_items), seen, chosen, need)

\* lines 370-381
AnyTopUp(bk, seen, acc) ==
    IF Len(acc.chosen) < ROUND_SIZE
    THEN LET all_items == shuffle(
                 Concat([k \in 1..Len(CHAPTERS) |-> Get(bk, CHAPTERS[k], <<>>)]), acc.rng)
             need == ROUND_SIZE - Len(acc.chosen)
         IN [acc EXCEPT !.chosen = TopUpLoop(all_items, seen, acc.chosen, need),
                        !.rng = NextRand(acc.rng)]
    ELSE acc

\* lines 384-390
RECURSIVE DedupeLoop(_, _, _)
DedupeLoop(chosen, seen_ids, unique_chosen) ==
    IF chosen = <<>> THEN unique_chosen
    ELSE LET qid == Head(chosen).id
         IN IF qid # 0 /\ qid \notin seen_ids
            THEN DedupeLoop(Tail(chosen), seen_ids \cup {qid}, Append(unique_chosen, Head(chosen)))
            ELSE DedupeLoop(Tail(chosen), seen_ids, unique_chosen)

\* faulty variant: the de-duplication pass left out
unique_chosen_off(chosen) == chosen

unique_chosen(chosen) == DedupeLoop(chosen, {}, <<>>)

pick_round_questions(bk, seen, rng) ==
    IF DOMAIN bk = {} THEN <<>>
    ELSE LET acc1 == ChapterLoop(bk, seen, 1, [chosen |-> <<>>, leftovers |-> <<>>, rng |-> rng])
             acc2 == LeftoverTopUp(acc1)
             acc3 == AnyTopUp(bk, seen, acc2)
         IN Take(shuffle(unique_chosen(acc3.chosen), acc3.rng), ROUND_SIZE)

Seeds == 0..(NumSeeds - 1)
Ids(qs) == {qs[i].id : i \in 1..Len(qs)}

(***************************************************************************)
(* The world the handlers act on, and the messages they send.              *)
(***************************************************************************)
World == [ud |-> user_data, seen |-> seen_questions, rounds |-> rounds,
          out |-> <<>>, clock |-> clock,
          attempts |-> user_attempts, users |-> users, names |-> pending_names,
          snaps |-> <<>>]

\* context.bot.send_message / reply_text: kind names the text, arg what it shows.
\* snaps[i] is the world at the moment the i-th message was handed to the
\* transport: what the handler leaves behind when that call raises.
Send(w, u, kind, arg) ==
    [w EXCEPT !.out = Append(@, [to |-> u, kind |-> kind, arg |-> arg]),
              !.snaps = Append(@, [w EXCEPT !.snaps = <<>>])]

ADMIN_IDS == {3}                           \* the ids listed in the environment: no player
is_admin(u) == u \in ADMIN_IDS
maintenance_block(u) == MAINTENANCE_ON /\ ~is_admin(u)

\* faulty variant: a request is refused only when more than max_attempts
\* attempts are recorded in the window
check_rate_limit_one_more(attempts, user_id, now, max_attempts, window_seconds) ==
    LET cutoff_time == now - window_seconds
        recent == SelectSeq(Get(attempts, user_id, <<>>), LAMBDA attempt : attempt > cutoff_time)
    IN IF Len(recent) > max_attempts
       THEN [ok |-> FALSE, attempts |-> Update(attempts, user_id :> recent)]
       ELSE [ok |-> TRUE, attempts |-> Update(attempts, user_id :> Append(recent, now))]

\* RateLimiter.check_rate_limit: the verdict and user_attempts after the call
check_rate_limit(attempts, user_id, now, max_attempts, window_seconds) ==
    LET cutoff_time == now - window_seconds
        recent == SelectSeq(Get(attempts, user_id, <<>>), LAMBDA attempt : attempt > cutoff_time)
    IN IF Len(recent) >= max_attempts
       THEN [ok |-> FALSE, attempts |-> Update(attempts, user_id :> recent)]
       ELSE [ok |-> TRUE, attempts |-> Update(attempts, user_id :> Append(recent, now))]

\* RateLimiter.get_wait_time
get_wait_time(attempts, user_id, now) ==
    IF Get(attempts, user_id, <<>>) = <<>> THEN 0
    ELSE LET list == attempts[user_id]
             oldest == CHOOSE t \in Range(list) : \A x \in Range(list) : t <= x
             wait_seconds == RATE_LIMIT_WINDOW - (now - oldest)
         IN IF wait_seconds > 0 THEN wait_seconds ELSE 0

\* upsert_user: INSERT of a row with the columns' defaults, or UPDATE of updated_at
upsert_user(w, u) ==
    IF u \in DOMAIN w.users THEN w
    ELSE [w EXCEPT !.users = Update(@, u :> [full_name |-> None, is_approved |-> FALSE,
                                             total_points |-> 0, rounds_played |-> 0])]

\* set_pending_name: INSERT ... ON CONFLICT(user_id) DO UPDATE
set_pending_name(w, u, full_name) ==
    [w EXCEPT !.names =
        Update(@, u :> [full_name |-> full_name, status |-> "pending",
                        reviewed_by |-> IF u \in DOMAIN @ THEN @[u].reviewed_by ELSE 0])]

approve_name(w, u, admin_id) ==
    IF u \notin DOMAIN w.names THEN w
    ELSE [w EXCEPT !.users = IF u \in DOMAIN @
                             THEN [@ EXCEPT ![u].full_name = Str(w.names[u].full_name),
                                            ![u].is_approved = TRUE]
                             ELSE @,
                   !.names[u].status = "approved",
                   !.names[u].reviewed_by = admin_id]

reject_name(w, u, admin_id) ==
    IF u \notin DOMAIN w.names THEN w
    ELSE [w EXCEPT !.names[u].status = "rejected", !.names[u].reviewed_by = admin_id]

NoItem == Item(0, "none", "-", 0, None, None, <<>>)   \* {} of `current_q or {}`

\* faulty variant: the pending question is not among the keys finish_round pops
RoundKeys_keep_current ==
    {"round_questions", "round_index", "round_score", "round_bonus",
     "round_correct", "round_streak", "round_chapter_correct",
     "round_chapter_total", "round_start_time",
     "awaiting_term_answer", "awaiting_name"}

RoundKeys == {"round_questions", "round_index", "round_score", "round_bonus",
              "round_correct", "round_streak", "round_chapter_correct",
              "round_chapter_total", "round_start_time", "current_q",
              "awaiting_term_answer", "awaiting_name"}

\* faulty variant: INSERT OR REPLACE of the player's row
mark_seen_replace(w, u, qid) == [w EXCEPT !.seen[u] = {qid}]

\* faulty variant: the row is written for every player
mark_seen_everyone(w, u, qid) == [w EXCEPT !.seen = [x \in DOMAIN @ |-> @[x] \cup {qid}]]

\* mark_seen: INSERT OR IGNORE INTO seen_questions
mark_seen(w, u, qid) == [w EXCEPT !.seen[u] = @ \cup {qid}]

\* faulty variant: the round is not counted in rounds_played
save_round_result_uncounted(w, u, score, bonus, correct, total, duration, chapter_stats) ==
    [w EXCEPT !.rounds = Append(@, [user_id |-> u, score |-> score, bonus |-> bonus,
                                    correct |-> correct, total |-> total,
                                    duration |-> duration,
                                    chapter_stats |-> chapter_stats]),
              !.users = IF u \in DOMAIN @
                        THEN [@ EXCEPT ![u].total_points = @ + score + bonus]
                        ELSE @]

\* save_round_result: the row inserted into rounds and the totals of the
\* player's row of users
save_round_result(w, u, score, bonus, correct, total, duration, chapter_stats) ==
    [w EXCEPT !.rounds = Append(@, [user_id |-> u, score |-> score, bonus |-> bonus,
                                    correct |-> correct, total |-> total,
                                    duration |-> duration,
                                    chapter_stats |-> chapter_stats]),
              !.users = IF u \in DOMAIN @
                        THEN [@ EXCEPT ![u].total_points = @ + score + bonus,
                                       ![u].rounds_played = @ + 1]
                        ELSE @]

\* faulty variant: the round is neither recorded nor cleared when it ends
finish_round_keep_state(w, u, ended_by_user) == Send(w, u, "menu", 0)

\* faulty variant: total is the number of questions answered or passed over
finish_round_answered_total(w, u, ended_by_user) ==
    LET d == w.ud[u]
        duration == w.clock - Get(d, "round_start_time", w.clock)
        score == Get(d, "round_score", 0)
        bonus == Get(d, "round_bonus", 0)
        correct == Get(d, "round_correct", 0)
        total == Get(d, "round_index", 0)
        chap_correct == Get(d, "round_chapter_correct", EmptyDict)
        chap_total == Get(d, "round_chapter_total", EmptyDict)
        w1 == save_round_result(w, u, score, bonus, correct, total, duration, chap_correct)
        w2 == [w1 EXCEPT !.ud[u] = Pop(d, RoundKeys)]
        summary == [early |-> ended_by_user, correct |-> correct, total |-> total,
                    score |-> score, bonus |-> bonus, total_score |-> score + bonus,
                    chapters |-> [c \in {x \in Range(CHAPTERS) : Get(chap_total, x, 0) > 0}
                                    |-> <<Get(chap_correct, c, 0), chap_total[c]>>]]
    IN Send(Send(w2, u, "summary", summary), u, "menu", 0)

finish_round(w, u, ended_by_user) ==
    LET d == w.ud[u]
        duration == w.clock - Get(d, "round_start_time", w.clock)
        score == Get(d, "round_score", 0)
        bonus == Get(d, "round_bonus", 0)
        correct == Get(d, "round_correct", 0)
        total == Len(Get(d, "round_questions", <<>>))
        chap_correct == Get(d, "round_chapter_correct", EmptyDict)
        chap_total == Get(d, "round_chapter_total", EmptyDict)
        w1 == save_round_result(w, u, score, bonus, correct, total, duration, chap_correct)
        w2 == [w1 EXCEPT !.ud[u] = Pop(d, RoundKeys)]
        summary == [early |-> ended_by_user, correct |-> correct, total |-> total,
                    score |-> score, bonus |-> bonus, total_score |-> score + bonus,
                    chapters |-> [c \in {x \in Range(CHAPTERS) : Get(chap_total, x, 0) > 0}
                                    |-> <<Get(chap_correct, c, 0), chap_total[c]>>]]
    IN Send(Send(w2, u, "summary", summary), u, "menu", 0)

\* faulty variant: the chapter total is not counted when the question is served
RECURSIVE send_next_question_uncounted(_, _)
send_next_question_uncounted(w, u) ==
    LET d == w.ud[u]
        idx == Get(d, "round_index", 0)
        qs == Get(d, "round_questions", <<>>)
    IN IF idx >= Len(qs) THEN finish_round(w, u, FALSE)
       ELSE LET q == qs[idx + 1]
                d1 == Update(d, [current_q |-> q])
            IN CASE q.type \in {"mcq", "tf"} ->
                      Send([w EXCEPT !.ud[u] = d1], u, "question", q.id)
                 [] q.type = "term" ->
                      Send([w EXCEPT !.ud[u] = Update(d1, [awaiting_term_answer |-> TRUE])],
                           u, "question", q.id)
                 [] OTHER ->
                      send_next_question_uncounted(
                          [w EXCEPT !.ud[u] = Update(d1, [round_index |-> idx + 1])], u)

\* faulty variant: passing over a question resets the streak, as a wrong answer does
RECURSIVE send_next_question_skip_resets(_, _)
send_next_question_skip_resets(w, u) ==
    LET d == w.ud[u]
        idx == Get(d, "round_index", 0)
        qs == Get(d, "round_questions", <<>>)
    IN IF idx >= Len(qs) THEN finish_round(w, u, FALSE)
       ELSE LET q == qs[idx + 1]
                chap == q.chapter
                totals == d["round_chapter_total"]
                d1 == Update(d, [current_q |-> q,
                                 round_chapter_total |->
                                     Update(totals, chap :> (Get(totals, chap, 0) + 1))])
            IN CASE q.type \in {"mcq", "tf"} ->
                      Send([w EXCEPT !.ud[u] = d1], u, "question", q.id)
                 [] q.type = "term" ->
                      Send([w EXCEPT !.ud[u] = Update(d1, [awaiting_term_answer |-> TRUE])],
                           u, "question", q.id)
                 [] OTHER ->
                      send_next_question_skip_resets(
                          [w EXCEPT !.ud[u] = Update(d1, [round_index |-> idx + 1,
                                                          round_streak |-> 0])], u)

RECURSIVE send_next_question(_, _)
send_next_question(w, u) ==
    LET d == w.ud[u]
        idx == Get(d, "round_index", 0)
        qs == Get(d, "round_questions", <<>>)
    IN IF idx >= Len(qs) THEN finish_round(w, u, FALSE)
       ELSE LET q == qs[idx + 1]
                chap == q.chapter
                totals == d["round_chapter_total"]
                d1 == Update(d, [current_q |-> q,
                                 round_chapter_total |->
                                     Update(totals, chap :> (Get(totals, chap, 0) + 1))])
            IN CASE q.type \in {"mcq", "tf"} ->
                      Send([w EXCEPT !.ud[u] = d1], u, "question", q.id)
                 [] q.type = "term" ->
                      Send([w EXCEPT !.ud[u] = Update(d1, [awaiting_term_answer |-> TRUE])],
                           u, "question", q.id)
                 [] OTHER ->
                      send_next_question(
                          [w EXCEPT !.ud[u] = Update(d1, [round_index |-> idx + 1])], u)

\* faulty variant: only the first entry of BONUS_CONFIG is looked at
bonus_points_first_tier(streak) == IF streak = 3 THEN BONUS_CONFIG[3] ELSE 0

\* faulty variant: every third answer of a streak earns a point
bonus_points_every_third(streak) == IF streak > 0 /\ streak % 3 = 0 THEN 1 ELSE 0

\* lines 1471-1475: the bonus points a streak value earns
bonus_points(streak) == IF streak \in DOMAIN BONUS_CONFIG THEN BONUS_CONFIG[streak] ELSE 0

\* faulty variant: a correct answer is counted under the first chapter
graded_counters_first_chapter(d, chap, is_correct) ==
    IF is_correct
    THEN LET streak == Get(d, "round_streak", 0) + 1
             chap_correct == d["round_chapter_correct"]
             d1 == Update(d, [round_score |-> Get(d, "round_score", 0) + 1,
                              round_correct |-> Get(d, "round_correct", 0) + 1,
                              round_streak |-> streak,
                              round_chapter_correct |->
                                  Update(chap_correct,
                                         CHAPTERS[1] :> (Get(chap_correct, CHAPTERS[1], 0) + 1))])
         IN IF bonus_points(streak) > 0
            THEN Update(d1, [round_bonus |-> Get(d1, "round_bonus", 0) + bonus_points(streak)])
            ELSE d1
    ELSE Update(d, [round_streak |-> 0])

\* faulty variant: a wrong answer also takes the bonus back
graded_counters_clear_bonus(d, chap, is_correct) ==
    IF is_correct
    THEN LET streak == Get(d, "round_streak", 0) + 1
             chap_correct == d["round_chapter_correct"]
             d1 == Update(d, [round_score |-> Get(d, "round_score", 0) + 1,
                              round_correct |-> Get(d, "round_correct", 0) + 1,
                              round_streak |-> streak,
                              round_chapter_correct |->
                                  Update(chap_correct, chap :> (Get(chap_correct, chap, 0) + 1))])
         IN Update(d1, [round_bonus |-> Get(d1, "round_bonus", 0) + bonus_points(streak)])
    ELSE Update(d, [round_streak |-> 0, round_bonus |-> 0])

\* faulty variant: a wrong answer leaves the streak running
graded_counters_keep_streak(d, chap, is_correct) ==
    IF is_correct
    THEN LET streak == Get(d, "round_streak", 0) + 1
             chap_correct == d["round_chapter_correct"]
             d1 == Update(d, [round_score |-> Get(d, "round_score", 0) + 1,
                              round_correct |-> Get(d, "round_correct", 0) + 1,
                              round_streak |-> streak,
                              round_chapter_correct |->
                                  Update(chap_correct, chap :> (Get(chap_correct, chap, 0) + 1))])
         IN Update(d1, [round_bonus |-> Get(d1, "round_bonus", 0) + bonus_points(streak)])
    ELSE d

\* lines 1462-1485: the counters after the answer is graded
\* faulty variant: a correct answer is not added to round_correct
graded_counters_uncounted(d, chap, is_correct) ==
    IF is_correct
    THEN LET streak == Get(d, "round_streak", 0) + 1
             chap_correct == d["round_chapter_correct"]
             d1 == Update(d, [round_score |-> Get(d, "round_score", 0) + 1,
                              round_streak |-> streak,
                              round_chapter_correct |->
                                  Update(chap_correct, chap :> (Get(chap_correct, chap, 0) + 1))])
         IN IF bonus_points(streak) > 0
            THEN Update(d1, [round_bonus |-> Get(d1, "round_bonus", 0) + bonus_points(streak)])
            ELSE d1
    ELSE Update(d, [round_streak |-> 0])

graded_counters(d, chap, is_correct) ==
    IF is_correct
    THEN LET streak == Get(d, "round_streak", 0) + 1
             chap_correct == d["round_chapter_correct"]
             d1 == Update(d, [round_score |-> Get(d, "round_score", 0) + 1,
                              round_correct |-> Get(d, "round_correct", 0) + 1,
                              round_streak |-> streak,
                              round_chapter_correct |->
                                  Update(chap_correct, chap :> (Get(chap_correct, chap, 0) + 1))])
         IN IF bonus_points(streak) > 0
            THEN Update(d1, [round_bonus |-> Get(d1, "round_bonus", 0) + bonus_points(streak)])
            ELSE d1
    ELSE Update(d, [round_streak |-> 0])

\* faulty variant: the position moves on but the question is not marked seen
seen_and_advance_no_mark(w, u, qid, idx) ==
    [w EXCEPT !.ud[u] = Update(@, [round_index |-> idx + 1])]

\* faulty variant: the position moves on by two
seen_and_advance_by_two(w, u, qid, idx) ==
    LET w1 == IF qid # 0 THEN mark_seen(w, u, qid) ELSE w
    IN [w1 EXCEPT !.ud[u] = Update(@, [round_index |-> idx + 2])]

\* lines 1487-1493: the seen mark and the new position
seen_and_advance(w, u, qid, idx) ==
    LET w1 == IF qid # 0 THEN mark_seen(w, u, qid) ELSE w
    IN [w1 EXCEPT !.ud[u] = Update(@, [round_index |-> idx + 1])]

apply_answer_result(w, u, is_correct) ==
    LET d == w.ud[u]
        idx == Get(d, "round_index", 0)
        q == Get(d, "current_q", NoItem)
        d1 == graded_counters(d, q.chapter, is_correct)
        bonus_hit == is_correct /\ bonus_points(d1["round_streak"]) > 0
        w1 == Send([w EXCEPT !.ud[u] = d1], u,
                   IF is_correct THEN "correct" ELSE "wrong",
                   IF bonus_hit THEN bonus_points(d1["round_streak"]) ELSE 0)
    IN send_next_question(seen_and_advance(w1, u, q.id, idx), u)

\* faulty variant: the button alone decides how the press is graded, whatever
\* the kind of the pending question
callback_grade_any_kind(q, data) ==
    IF data.kind = "ans_mcq"
    THEN Bool(<<data.arg>> = Upper(Strip(OrEmpty(q.correct))))
    ELSE IF data.kind = "ans_tf"
    THEN LET a == parse_tf_answer(q.answer)
             correct_bool == Truthy(IF Truthy(a) THEN a ELSE parse_tf_answer(q.correct))
         IN Bool(data.arg = (IF correct_bool THEN "true" ELSE "false"))
    ELSE None

\* faulty variant: the stored label is compared as it is written
callback_grade_case_sensitive(q, data) ==
    IF q.type = "mcq" /\ data.kind = "ans_mcq"
    THEN Bool(<<data.arg>> = Strip(OrEmpty(q.correct)))
    ELSE IF q.type = "tf" /\ data.kind = "ans_tf"
    THEN LET a == parse_tf_answer(q.answer)
             correct_bool == Truthy(IF Truthy(a) THEN a ELSE parse_tf_answer(q.correct))
         IN Bool(data.arg = (IF correct_bool THEN "true" ELSE "false"))
    ELSE None

\* lines 1336-1346: the grade of a button press; "none" when the press does not
\* fit the kind of the pending question
callback_grade(q, data) ==
    IF q.type = "mcq" /\ data.kind = "ans_mcq"
    THEN Bool(<<data.arg>> = Upper(Strip(OrEmpty(q.correct))))
    ELSE IF q.type = "tf" /\ data.kind = "ans_tf"
    THEN LET a == parse_tf_answer(q.answer)
             correct_bool == Truthy(IF Truthy(a) THEN a ELSE parse_tf_answer(q.correct))
         IN Bool(data.arg = (IF correct_bool THEN "true" ELSE "false"))
    ELSE None

\* data = [kind, arg, msg]: the button pressed (query.data) and the id of the
\* question whose prompt carries it (query.message; 0 for an older message)
answer_callback(w0, u, data) ==
    IF maintenance_block(u) THEN Send(w0, u, "maintenance", 0)
    ELSE LET w == Send(w0, u, "answer_query", data)
         IN IF "round_questions" \notin DOMAIN w.ud[u] THEN Send(w, u, "no_round", 0)
            ELSE IF "current_q" \notin DOMAIN w.ud[u] THEN Send(w, u, "load_error", 0)
            ELSE IF data.kind = "end_round" THEN finish_round(w, u, TRUE)
            ELSE LET grade == callback_grade(w.ud[u]["current_q"], data)
                 IN IF grade = None THEN Send(w, u, "unexpected", 0)
                    ELSE apply_answer_result(
                             Send(w, u, "edit_reply_markup", data.msg), u, grade.b)

\* lines 1434-1440: the grade of a typed term
term_grade(q, text) ==
    LET user_answer == normalize_arabic(text)
        correct_term == normalize_arabic(q.term)
    IN (user_answer = correct_term) \/ (strip_al(user_answer) = strip_al(correct_term))

\* the loop over config.ADMIN_IDS of text_router: the notification sent to each
RECURSIVE NotifyAdmins(_, _, _)
NotifyAdmins(w, admins, request) ==
    IF admins = {} THEN w
    ELSE LET admin_id == CHOOSE a \in admins : \A b \in admins : a <= b
         IN NotifyAdmins(Send(w, admin_id, "name_request", request),
                         admins \ {admin_id}, request)

text_router(w, u, message_text) ==
    LET d == w.ud[u]
        text == Strip(message_text)
    IN IF maintenance_block(u) THEN Send(w, u, "maintenance", 0)
       ELSE IF message_text = <<>> THEN w
       ELSE IF Get(d, "awaiting_name", FALSE)
       THEN IF ~looks_like_real_name(text) THEN Send(w, u, "name_refused", 0)
            ELSE LET w1 == set_pending_name(upsert_user(w, u), u, text)
                     w2 == Send([w1 EXCEPT !.ud[u] = Update(d, [awaiting_name |-> FALSE])],
                                u, "name_received", 0)
                 IN NotifyAdmins(w2, ADMIN_IDS, [uid |-> u, full_name |-> text])
       ELSE IF Get(d, "awaiting_term_answer", FALSE)
       THEN IF "round_questions" \notin DOMAIN d
               \/ "current_q" \notin DOMAIN d
               \/ Get(d, "current_q", NoItem).type # "term"
            THEN [w EXCEPT !.ud[u] = Update(d, [awaiting_term_answer |-> FALSE])]
            ELSE apply_answer_result(
                     [w EXCEPT !.ud[u] = Update(d, [awaiting_term_answer |-> FALSE])],
                     u, term_grade(d["current_q"], text))
       ELSE Send(w, u, "use_menu", 0)

\* faulty variant: the counters of the round before are not zeroed
start_round_keep_counters(w, u, rng) ==
    LET w1 == [w EXCEPT !.ud[u] = Update(@, [round_start_time |-> w.clock])]
        round_questions == pick_round_questions(buckets, w.seen[u], rng)
    IN IF Len(round_questions) < MIN_ROUND
       THEN Send(w1, u, "not_enough", 0)
       ELSE LET zero == [c \in Range(CHAPTERS) |-> 0]
                d == Update(w1.ud[u],
                        [round_questions |-> round_questions, round_index |-> 0,
                         round_score |-> Get(w1.ud[u], "round_score", 0),
                         round_bonus |-> Get(w1.ud[u], "round_bonus", 0),
                         round_correct |-> Get(w1.ud[u], "round_correct", 0),
                         round_streak |-> Get(w1.ud[u], "round_streak", 0),
                         round_chapter_correct |-> zero,
                         round_chapter_total |-> zero,
                         awaiting_term_answer |-> FALSE, awaiting_name |-> FALSE])
            IN send_next_question(
                   Send([w1 EXCEPT !.ud[u] = d], u, "welcome", Len(round_questions)), u)

start_round(w, u, rng) ==
    LET w1 == [w EXCEPT !.ud[u] = Update(@, [round_start_time |-> w.clock])]
        round_questions == pick_round_questions(buckets, w.seen[u], rng)
    IN IF Len(round_questions) < MIN_ROUND
       THEN Send(w1, u, "not_enough", 0)
       ELSE LET zero == [c \in Range(CHAPTERS) |-> 0]
                d == Update(w1.ud[u],
                        [round_questions |-> round_questions, round_index |-> 0,
                         round_score |-> 0, round_bonus |-> 0, round_correct |-> 0,
                         round_streak |-> 0, round_chapter_correct |-> zero,
                         round_chapter_total |-> zero,
                         awaiting_term_answer |-> FALSE, awaiting_name |-> FALSE])
            IN send_next_question(
                   Send([w1 EXCEPT !.ud[u] = d], u, "welcome", Len(round_questions)), u)

\* menu_callback, data = "play_round"
menu_play_round(w0, u, rng) ==
    IF maintenance_block(u) THEN Send(w0, u, "maintenance", 0)
    ELSE LET w == upsert_user(Send(w0, u, "menu_query", "play_round"), u)
             limit == check_rate_limit(w.attempts, u, w.clock,
                                       RATE_LIMIT_ATTEMPTS, RATE_LIMIT_WINDOW)
             w1 == [w EXCEPT !.attempts = limit.attempts]
         IN IF ~limit.ok
            THEN Send(w1, u, "rate_limited", get_wait_time(w1.attempts, u, w1.clock))
            ELSE start_round(w1, u, rng)

\* menu_callback, data = "set_name"
menu_set_name(w0, u) ==
    IF maintenance_block(u) THEN Send(w0, u, "maintenance", 0)
    ELSE LET w == upsert_user(Send(w0, u, "menu_query", "set_name"), u)
         IN Send([w EXCEPT !.ud[u] = Update(@, [awaiting_name |-> TRUE,
                                                awaiting_term_answer |-> FALSE])],
                 u, "ask_name", 0)

(***************************************************************************)
(* Spec: one player's updates, handled one after the other.                *)
(***************************************************************************)
Players == {1}

InRound(u) == "round_questions" \in DOMAIN user_data[u]

\* answer_keyboard_mcq, answer_keyboard_tf: the buttons under a question's prompt
Buttons(q) ==
    (IF q.type = "mcq" THEN {[kind |-> "ans_mcq", arg |-> key] : key \in q.options}
     ELSE IF q.type = "tf" THEN {[kind |-> "ans_tf", arg |-> "true"],
                                 [kind |-> "ans_tf", arg |-> "false"]}
     ELSE {})
    \cup (IF q.type \in {"mcq", "tf"} THEN {[kind |-> "end_round", arg |-> ""]} ELSE {})

\* the questions of the round in progress served so far
Served(u) ==
    IF InRound(u)
    THEN LET qs == user_data[u]["round_questions"]
         IN {qs[i] : i \in 1..Min(user_data[u]["round_index"] + 1, Len(qs))}
    ELSE {}

\* the button presses that can arrive: on a prompt of the round in progress, or
\* on the keyboard of an older message (an mcq prompt: msg = 0)
CallbackUpdates(u) ==
    UNION {{[kind |-> b.kind, arg |-> b.arg, msg |-> q.id] : b \in Buttons(q)} :
              q \in Served(u)}
    \cup {[kind |-> "ans_mcq", arg |-> "A", msg |-> 0], [kind |-> "end_round", arg |-> "", msg |-> 0]}

Texts == {AlGhaz, <<"ghain", "alef", "zain">>, <<"sad", "lam", "beh">>, <<"beh">>}

Becomes(w) ==
    /\ user_data' = w.ud
    /\ seen_questions' = w.seen
    /\ rounds' = w.rounds
    /\ outbox' = w.out
    /\ clock' = w.clock
    /\ user_attempts' = w.attempts
    /\ users' = w.users
    /\ pending_names' = w.names

Init ==
    /\ buckets \in RoundCatalogs
    /\ user_data = [u \in Users |-> EmptyDict]
    /\ seen_questions = [u \in Users |-> {}]
    /\ rounds = <<>>
    /\ outbox = <<>>
    /\ clock = 0
    /\ picked = <<>>
    /\ user_attempts = EmptyDict
    /\ users = EmptyDict
    /\ pending_names = EmptyDict
    /\ normalized = <<>>
    /\ failed_sends = 0
    /\ admitted = [u \in Users |-> <<>>]
    /\ notifications = {}

PlayRound(u) ==
    /\ clock < MaxClock
    /\ \E rng \in Seeds :
          Becomes(menu_play_round([World EXCEPT !.clock = @ + 1], u, rng))
    /\ UNCHANGED <<buckets, picked, normalized, observed>>

Callback(u, data) ==
    /\ Becomes(answer_callback(World, u, data))
    /\ UNCHANGED <<buckets, picked, normalized, observed>>

Text(u, text) ==
    /\ Becomes(text_router(World, u, text))
    /\ UNCHANGED <<buckets, picked, normalized, observed>>

AnswerCallback(u) == \E data \in CallbackUpdates(u) : Callback(u, data)

TextMessage(u) == \E text \in Texts : Text(u, text)

Next ==
    \/ \E u \in Players : PlayRound(u)
    \/ \E u \in Players : AnswerCallback(u)
    \/ \E u \in Players : TextMessage(u)

Spec == Init /\ [][Next]_vars

(***************************************************************************)
(* SamplerSpec: pick_round_questions applied to generated catalogs.  A     *)
(* catalog is given by the size of each chapter's bucket and by how its    *)
(* ids are written in the questions file.                                  *)
(***************************************************************************)
IdModes == {"unique", "dup_id", "dup_item", "empty_id"}
CountChoices == {0, 1, target_per_chapter, MaxPerChapter}

GenItem(c, i, mode) ==
    LET j == IF mode \in {"dup_id", "dup_item"} /\ i = 2 THEN 1 ELSE i
        id == IF mode = "empty_id" /\ c = 1 /\ i = 1 THEN 0 ELSE 100 * c + j
        text == IF mode = "dup_item" /\ i = 2 THEN 1 ELSE i
    IN CASE j % 3 = 1 -> Item(id, "mcq", CHAPTERS[c], text, Str(<<"A">>), None, <<>>)
         [] j % 3 = 2 -> Item(id, "tf", CHAPTERS[c], text, None, Bool(TRUE), <<>>)
         [] OTHER -> Item(id, "term", CHAPTERS[c], text, None, None, AlGhaz)

GenBuckets(counts, mode) ==
    [ch \in Range(CHAPTERS) |->
        LET c == CHOOSE k \in 1..Len(CHAPTERS) : CHAPTERS[k] = ch
        IN [i \in 1..counts[c] |-> GenItem(c, i, mode)]]

SamplerCatalogs ==
    {GenBuckets(counts, mode) :
        counts \in [1..Len(CHAPTERS) -> CountChoices], mode \in IdModes}

AllItems(bk) == Concat([k \in 1..Len(CHAPTERS) |-> Get(bk, CHAPTERS[k], <<>>)])

SamplerInit ==
    /\ buckets \in SamplerCatalogs
    /\ user_data = [u \in Users |-> EmptyDict]
    /\ seen_questions = [u \in Users |-> {}]
    /\ rounds = <<>>
    /\ outbox = <<>>
    /\ clock = 0
    /\ picked = <<>>
    /\ user_attempts = EmptyDict
    /\ users = EmptyDict
    /\ pending_names = EmptyDict
    /\ normalized = <<>>
    /\ failed_sends = 0
    /\ admitted = [u \in Users |-> <<>>]
    /\ notifications = {}

\* one call of pick_round_questions
Pick(u) ==
    /\ \E rng \in Seeds : picked' = <<pick_round_questions(buckets, seen_questions[u], rng)>>
    /\ UNCHANGED <<buckets, user_data, seen_questions, rounds, outbox, clock,
                   user_attempts, users, pending_names, normalized, observed>>

\* the picked round is played to its end: mark_seen for each of its questions
SeeRound(u) ==
    /\ clock < MaxClock
    /\ picked # <<>>
    /\ picked[1] # <<>>
    /\ seen_questions' = [seen_questions EXCEPT ![u] = @ \cup Ids(picked[1])]
    /\ clock' = clock + 1
    /\ picked' = <<>>
    /\ UNCHANGED <<buckets, user_data, rounds, outbox, user_attempts, users, pending_names,
                   normalized, observed>>

SamplerNext ==
    \/ \E u \in Players : Pick(u)
    \/ \E u \in Players : SeeRound(u)

SamplerSpec == SamplerInit /\ [][SamplerNext]_vars

(***************************************************************************)
(* LongSpec: rounds over generated catalogs (20 questions, 4 a chapter; 20 *)
(* questions unevenly spread; 5 questions), played by a player who answers *)
(* the pending question, wrongly at most MaxWrong times a round, or ends   *)
(* the round.  E2ESpec: the 20-question catalog, every player starting     *)
(* with nothing seen and answering every question correctly.               *)
(***************************************************************************)
EvenCounts == [k \in 1..Len(CHAPTERS) |-> target_per_chapter]
LongCounts == {EvenCounts,
               [k \in 1..Len(CHAPTERS) |-> 1],
               [k \in 1..Len(CHAPTERS) |-> 2],
               [k \in 1..Len(CHAPTERS) |-> IF k <= 2 THEN MaxPerChapter ELSE IF k = 5 THEN 0 ELSE 1]}

Sent(out, u, kind) == \E i \in 1..Len(out) : out[i].to = u /\ out[i].kind = kind
ArgOf(out, u, kind) == out[CHOOSE i \in 1..Len(out) : out[i].to = u /\ out[i].kind = kind].arg

\* the presses of a button of the pending question's own prompt
Genuine(u) ==
    {d \in CallbackUpdates(u) : d.msg = user_data[u]["current_q"].id /\ d.kind # "end_round"}

AnswerPending(u) ==
    /\ InRound(u)
    /\ \/ \E data \in Genuine(u) : Callback(u, data)
       \/ \E text \in Texts : Text(u, text)

AnswerCorrectly(u) == AnswerPending(u) /\ Sent(outbox', u, "correct")

AnswerWrongly(u) ==
    /\ InRound(u)
    /\ user_data[u]["round_index"] - user_data[u]["round_score"] < MaxWrong
    /\ AnswerPending(u)
    /\ Sent(outbox', u, "wrong")

EndRound(u) ==
    /\ InRound(u)
    /\ Callback(u, [kind |-> "end_round", arg |-> "", msg |-> user_data[u]["current_q"].id])

InitWith(catalogs) ==
    /\ buckets \in catalogs
    /\ user_data = [u \in Users |-> EmptyDict]
    /\ seen_questions = [u \in Users |-> {}]
    /\ rounds = <<>>
    /\ outbox = <<>>
    /\ clock = 0
    /\ picked = <<>>
    /\ user_attempts = EmptyDict
    /\ users = EmptyDict
    /\ pending_names = EmptyDict
    /\ normalized = <<>>
    /\ failed_sends = 0
    /\ admitted = [u \in Users |-> <<>>]
    /\ notifications = {}

LongInit == InitWith({GenBuckets(counts, "unique") : counts \in LongCounts})

StartFresh(u) ==
    /\ seen_questions[u] = {}
    /\ ~InRound(u)
    /\ PlayRound(u)

LongNext ==
    \/ \E u \in Players : StartFresh(u)
    \/ \E u \in Players : AnswerCorrectly(u)
    \/ \E u \in Players : AnswerWrongly(u)
    \/ \E u \in Players : EndRound(u)

LongSpec == LongInit /\ [][LongNext]_vars

E2EInit == InitWith({GenBuckets(EvenCounts, "unique")})

E2ENext ==
    \/ \E u \in Users : StartFresh(u)
    \/ \E u \in Users : AnswerCorrectly(u)

E2ESpec == E2EInit /\ [][E2ENext]_vars

(***************************************************************************)
(* Properties of pick_round_questions, checked under SamplerSpec.          *)
(***************************************************************************)
NoRepeatedId(qs) == \A i, j \in 1..Len(qs) : qs[i].id = qs[j].id => i = j

\* C9 (as stated): for a catalog of at least ROUND_SIZE questions whose ids are
\* pairwise distinct, spread over the chapters in any way, and a player who has
\* seen nothing, pick_round_questions returns exactly ROUND_SIZE questions with
\* pairwise distinct ids, whatever the shuffles do.
C9_SamplerSize ==
    \A u \in Players :
        (/\ picked # <<>>
         /\ seen_questions[u] = {}
         /\ NoRepeatedId(AllItems(buckets))
         /\ Len(AllItems(buckets)) >= ROUND_SIZE)
        => (Len(picked[1]) = ROUND_SIZE /\ NoRepeatedId(picked[1]))

\* C10: whatever the catalog, the seen set and the shuffles, the list returned
\* by pick_round_questions never holds the same question id twice, the top-up
\* phases included.
C10_NoRepeat == picked # <<>> => NoRepeatedId(picked[1])

\* a catalog that writes one id twice, a player who has seen a round, too few
\* unseen questions per chapter (the top-up phases run), and the twice-written
\* id in the returned round
C10_Witness ==
    /\ picked # <<>>
    /\ ~NoRepeatedId(AllItems(buckets))
    /\ \E u \in Players : seen_questions[u] # {}
    /\ \E c \in 1..Len(CHAPTERS) : Len(buckets[CHAPTERS[c]]) < target_per_chapter
    /\ Len(picked[1]) >= MIN_ROUND
    /\ \E i \in 1..Len(picked[1]) :
           \E m, n \in 1..Len(AllItems(buckets)) :
               m # n /\ AllItems(buckets)[m].id = picked[1][i].id
                     /\ AllItems(buckets)[n].id = picked[1][i].id

(***************************************************************************)
(* Properties of the round handlers.  A step that graded an answer is      *)
(* recognised by the feedback it sent ("correct" or "wrong"); when the     *)
(* step also finished the round the final counters are read from the       *)
(* summary, since finish_round pops them from user_data.                   *)
(***************************************************************************)
Counter(u, key) == Get(user_data[u], key, 0)

Graded(u) == Sent(outbox', u, "correct") \/ Sent(outbox', u, "wrong")

Finished(u) == Sent(outbox', u, "summary")

AfterScore(u) ==
    IF Finished(u) THEN ArgOf(outbox', u, "summary").score ELSE Counter(u, "round_score")'

AfterBonus(u) ==
    IF Finished(u) THEN ArgOf(outbox', u, "summary").bonus ELSE Counter(u, "round_bonus")'

AfterCorrect(u) ==
    IF Finished(u) THEN ArgOf(outbox', u, "summary").correct ELSE Counter(u, "round_correct")'

Servable == {"mcq", "tf", "term"}

\* the number of questions send_next_question passes over from position n on
RECURSIVE SkipRun(_, _)
SkipRun(qs, n) ==
    IF n < Len(qs) /\ qs[n + 1].type \notin Servable THEN 1 + SkipRun(qs, n + 1) ELSE 0

\* the second of two presses of the same button of the same prompt, the first
\* of which was graded in the step before
DoubleTap(u) ==
    /\ Sent(outbox, u, "correct") \/ Sent(outbox, u, "wrong")
    /\ Sent(outbox, u, "answer_query")
    /\ ArgOf(outbox, u, "answer_query").msg # 0
    /\ ArgOf(outbox, u, "answer_query").kind # "end_round"
    /\ Sent(outbox', u, "answer_query")
    /\ ArgOf(outbox', u, "answer_query") = ArgOf(outbox, u, "answer_query")

CounterKeys == {"round_score", "round_streak", "round_bonus", "round_correct", "round_index"}

Counters(u) == [k \in CounterKeys |-> Counter(u, k)]

\* C1 (as stated): of two presses of a button of the same served question the
\* first is graded and advances the position; the second, handled after the
\* position has advanced, is rejected and changes neither score, streak, bonus,
\* correct count, position nor the seen set, whatever question is now pending.
C1_StaleRejected ==
    [][\A u \in Players :
          DoubleTap(u) =>
              /\ ~Graded(u)
              /\ Counters(u)' = Counters(u)
              /\ seen_questions'[u] = seen_questions[u]]_vars

\* C2 (as stated): in a round the bonus grows by exactly 1 on every correct
\* answer that brings the streak to a positive multiple of 3 and by nothing on
\* any other answer, so k correct answers in a row from the start of the round
\* leave a bonus of k \div 3.
C2_BonusEveryThird ==
    [][\A u \in Players :
          Graded(u) =>
              /\ AfterBonus(u) = Counter(u, "round_bonus")
                    + (IF Sent(outbox', u, "correct") /\ (Counter(u, "round_streak") + 1) % 3 = 0
                       THEN 1 ELSE 0)
              /\ (~Finished(u) /\ Counter(u, "round_streak")' = Counter(u, "round_index")')
                    => Counter(u, "round_bonus")' = Counter(u, "round_streak")' \div 3]_vars

\* C3: from streak 0 and bonus 0, three correct answers in a row leave the
\* bonus at 1; a wrong answer sets the streak to 0 and leaves bonus and score
\* as they were; the bonus never decreases while the round lasts.
C3_BonusKept ==
    [][\A u \in Players :
          /\ (Sent(outbox', u, "correct") /\ Counter(u, "round_streak") = 2
                 /\ Counter(u, "round_bonus") = 0)
                => AfterBonus(u) = 1
          /\ Sent(outbox', u, "wrong")
                => /\ AfterBonus(u) = Counter(u, "round_bonus")
                   /\ AfterScore(u) = Counter(u, "round_score")
                   /\ ~Finished(u) => Counter(u, "round_streak")' = 0
          /\ (InRound(u) /\ ~Sent(outbox', u, "welcome"))
                => AfterBonus(u) >= Counter(u, "round_bonus")]_vars

\* three correct answers, the bonus of 1 they earned, then a wrong answer
C3_Witness ==
    \E u \in Players :
        /\ InRound(u)
        /\ Sent(outbox, u, "wrong")
        /\ Counter(u, "round_streak") = 0
        /\ Counter(u, "round_score") = 3
        /\ Counter(u, "round_index") = 4
        /\ Counter(u, "round_bonus") = 1

\* C5: grading a correct answer adds exactly 1 to score, correct count and
\* streak; grading a wrong answer sets the streak to 0 and leaves score and
\* correct count; a step of a round that grades nothing leaves all three.
C5_GradedCounters ==
    [][\A u \in Players :
          /\ Sent(outbox', u, "correct")
                => /\ AfterScore(u) = Counter(u, "round_score") + 1
                   /\ AfterCorrect(u) = Counter(u, "round_correct") + 1
                   /\ ~Finished(u) => Counter(u, "round_streak")' = Counter(u, "round_streak") + 1
          /\ Sent(outbox', u, "wrong")
                => /\ AfterScore(u) = Counter(u, "round_score")
                   /\ AfterCorrect(u) = Counter(u, "round_correct")
                   /\ ~Finished(u) => Counter(u, "round_streak")' = 0
          /\ (InRound(u) /\ ~Graded(u) /\ ~Sent(outbox', u, "welcome"))
                => /\ AfterScore(u) = Counter(u, "round_score")
                   /\ AfterCorrect(u) = Counter(u, "round_correct")
                   /\ ~Finished(u) => Counter(u, "round_streak")' = Counter(u, "round_streak")]_vars

\* a wrong answer graded after two correct ones
C5_Witness ==
    \E u \in Players :
        /\ InRound(u)
        /\ Sent(outbox, u, "wrong")
        /\ Counter(u, "round_score") = 2
        /\ Counter(u, "round_correct") = 2
        /\ Counter(u, "round_streak") = 0

AfterIndex(u) ==
    IF Finished(u) THEN Len(user_data[u]["round_questions"]) ELSE Counter(u, "round_index")'

\* C6 (as stated): every graded answer, correct or wrong, adds the graded
\* question's id to the player's seen set and advances the position by exactly 1.
C6_AdvanceByOne ==
    [][\A u \in Players :
          Graded(u) =>
              /\ seen_questions'[u] = seen_questions[u] \cup {user_data[u]["current_q"].id}
              /\ AfterIndex(u) = Counter(u, "round_index") + 1]_vars

\* C6 (amended): every graded answer, correct or wrong, adds the graded
\* question's id to the player's seen set and advances the position by 1, plus
\* 1 for each question of a kind that cannot be shown that directly follows,
\* which send_next_question passes over in the same handler.
C6_AdvancePastSkipped ==
    [][\A u \in Players :
          Graded(u) =>
              /\ seen_questions'[u] = seen_questions[u] \cup {user_data[u]["current_q"].id}
              /\ user_data[u]["current_q"].id \notin seen_questions[u]
              /\ AfterIndex(u) = Counter(u, "round_index") + 1
                    + SkipRun(user_data[u]["round_questions"], Counter(u, "round_index") + 1)]_vars

\* a wrong answer was graded and the question after it was passed over
C6_Witness ==
    \E u \in Players :
        /\ InRound(u)
        /\ Sent(outbox, u, "wrong")
        /\ Counter(u, "round_index") >= 2
        /\ user_data[u]["round_questions"][Counter(u, "round_index")].type \notin Servable
        /\ user_data[u]["round_questions"][Counter(u, "round_index") - 1].id \in seen_questions[u]

\* a question of the round is pending
Pending(u) ==
    /\ Counter(u, "round_index") < Len(user_data[u]["round_questions"])
    /\ "current_q" \in DOMAIN user_data[u]
    /\ user_data[u]["current_q"] = user_data[u]["round_questions"][Counter(u, "round_index") + 1]
    /\ user_data[u]["current_q"].type \in Servable

\* C7: a started round is finished by the step in which the number of questions
\* answered or passed over reaches the length of round_questions: then no
\* question is pending, the summary is sent and the result row recorded; until
\* then a question is pending, and the round ends only if the player ends it.
C7_RoundCompletion ==
    [][\A u \in Players :
          LET qs == user_data[u]["round_questions"]
              idx == Counter(u, "round_index")
              done == idx + 1 + SkipRun(qs, idx + 1)
          IN /\ InRound(u)' => Pending(u)'
             /\ (Graded(u) /\ done = Len(qs))
                   => /\ ~InRound(u)'
                      /\ "current_q" \notin DOMAIN user_data'[u]
                      /\ Finished(u) /\ ~ArgOf(outbox', u, "summary").early
                      /\ Len(rounds') = Len(rounds) + 1
                      /\ rounds'[Len(rounds')].user_id = u
                      /\ rounds'[Len(rounds')].total = Len(qs)
             /\ (Graded(u) /\ done < Len(qs)) => (InRound(u)' /\ ~Finished(u))
             /\ (InRound(u) /\ ~InRound(u)' /\ ~Graded(u))
                   => /\ Finished(u) /\ ArgOf(outbox', u, "summary").early
                      /\ ArgOf(outbox', u, "answer_query").kind = "end_round"]_vars

\* a round answered to its last question: summary sent, result recorded
C7_Witness ==
    \E u \in Players :
        /\ ~InRound(u)
        /\ Sent(outbox, u, "correct") \/ Sent(outbox, u, "wrong")
        /\ Sent(outbox, u, "summary")
        /\ ~ArgOf(outbox, u, "summary").early
        /\ ArgOf(outbox, u, "summary").total >= MIN_ROUND
        /\ rounds # <<>>

\* C8 (as stated): every round that starts has exactly ROUND_SIZE questions.
C8_FullRound ==
    \A u \in Players : InRound(u) => Len(user_data[u]["round_questions"]) = ROUND_SIZE

\* C4: with 20 unseen questions, 4 in each of the 5 chapters, the started round
\* holds all 20 questions, and the round of a player who answers every one
\* correctly ends with score 20, bonus 6 and correct count 20.
C4_EndToEnd ==
    /\ \A u \in Users :
          InRound(u) =>
              /\ Len(user_data[u]["round_questions"]) = 20
              /\ Ids(user_data[u]["round_questions"]) = Ids(AllItems(buckets))
    /\ \A i \in 1..Len(rounds) :
          /\ rounds[i].score = 20
          /\ rounds[i].bonus = 6
          /\ rounds[i].correct = 20
          /\ rounds[i].total = 20
    /\ \A u \in Users :
          Sent(outbox, u, "summary") =>
              /\ ArgOf(outbox, u, "summary").score = 20
              /\ ArgOf(outbox, u, "summary").bonus = 6
              /\ ArgOf(outbox, u, "summary").correct = 20
              /\ ~ArgOf(outbox, u, "summary").early

\* a round of 20 answered correctly to its end
C4_Witness ==
    \E u \in Users :
        /\ Sent(outbox, u, "summary")
        /\ Sent(outbox, u, "correct")
        /\ seen_questions[u] = Ids(AllItems(buckets))
        /\ \E i \in 1..Len(rounds) : rounds[i].user_id = u

(***************************************************************************)
(* Further properties of pick_round_questions (SamplerSpec).               *)
(***************************************************************************)
Unseen(bk, seen) == SelectSeq(AllItems(bk), LAMBDA q : q.id \notin seen)

\* C11 (as stated): when the seen set leaves fewer than ROUND_SIZE unseen
\* questions, the round is topped up from all questions of the catalog, seen
\* ones included, so a player who has seen the whole catalog still gets a
\* non-empty round (stated for catalogs in which every question has an id).
C11_SeenFallback ==
    \A u \in Players :
        (/\ picked # <<>>
         /\ AllItems(buckets) # <<>>
         /\ 0 \notin Ids(AllItems(buckets))
         /\ Len(Unseen(buckets, seen_questions[u])) < ROUND_SIZE)
        => /\ picked[1] # <<>>
           /\ Len(picked[1]) >= Min(ROUND_SIZE, Cardinality(Ids(AllItems(buckets)) \ {0}))

\* the number of questions of chapter ch in the list qs
FromChapter(qs, ch) == Cardinality({i \in 1..Len(qs) : qs[i].chapter = ch})

\* C12: when each of the 5 chapters holds at least 4 unseen questions, every
\* chapter gives at least 2 questions to the round of 20, whatever the shuffles
\* do (the chapter loop takes 4 of each; the de-duplication pass removes at
\* most the one question the catalog writes twice or without id).
C12_ChapterCoverage ==
    \A u \in Players :
        (/\ picked # <<>>
         /\ \A ch \in Range(CHAPTERS) :
                Len(SelectSeq(buckets[ch], LAMBDA q : q.id \notin seen_questions[u]))
                    >= target_per_chapter)
        => \A ch \in Range(CHAPTERS) :
               /\ FromChapter(picked[1], ch) >= 2
               /\ FromChapter(picked[1], ch) <= target_per_chapter

\* a second round picked for a player who has seen a round, every chapter
\* still holding 4 unseen questions, one of which is written twice
C12_Witness ==
    /\ picked # <<>>
    /\ \E u \in Players :
          /\ seen_questions[u] # {}
          /\ \A ch \in Range(CHAPTERS) :
                Len(SelectSeq(buckets[ch], LAMBDA q : q.id \notin seen_questions[u]))
                    >= target_per_chapter
    /\ ~NoRepeatedId(AllItems(buckets))
    /\ \A ch \in Range(CHAPTERS) : FromChapter(picked[1], ch) >= 2

(***************************************************************************)
(* Properties of start_round and of the state between handler runs.        *)
(***************************************************************************)
\* C13 (as stated): when pick_round_questions returns fewer than MIN_ROUND
\* questions, start_round starts no round, serves no question and leaves every
\* stored round field of the player as it was, the fields and the start time
\* of a round in progress included.
C13_RefusedStart ==
    [][\A u \in Players :
          Sent(outbox', u, "not_enough") =>
              /\ ~Sent(outbox', u, "question")
              /\ ~Sent(outbox', u, "welcome")
              /\ InRound(u)' = InRound(u)
              /\ seen_questions'[u] = seen_questions[u]
              /\ user_data'[u] = user_data[u]]_vars

\* the counters of a round that has just started
ZeroedCounters(u) ==
    /\ Counter(u, "round_score") = 0
    /\ Counter(u, "round_streak") = 0
    /\ Counter(u, "round_bonus") = 0
    /\ Counter(u, "round_correct") = 0
    /\ \A c \in Range(CHAPTERS) : user_data[u]["round_chapter_correct"][c] = 0

\* C14 (as stated): when start_round succeeds the position is 0, score, streak,
\* bonus and correct count are 0, every chapter's correct count is 0 and the
\* pending question is the first question of the sampled list.
C14_StartAtFirst ==
    [][\A u \in Players :
          Sent(outbox', u, "welcome") =>
              /\ InRound(u)'
              /\ Counter(u, "round_index")' = 0
              /\ ZeroedCounters(u)'
              /\ user_data'[u]["current_q"] = user_data'[u]["round_questions"][1]]_vars

\* C14 (amended): when start_round succeeds, score, streak, bonus and correct
\* count are 0, every chapter's correct count is 0, the position is the number
\* of questions of unknown kind the sampled list begins with (0 when its first
\* question can be shown) and the pending question is the one at that position.
C14_StartAtFirstShowable ==
    [][\A u \in Players :
          (Sent(outbox', u, "welcome") /\ ~Finished(u)) =>
              /\ InRound(u)'
              /\ Counter(u, "round_index")' = SkipRun(user_data'[u]["round_questions"], 0)
              /\ ZeroedCounters(u)'
              /\ user_data'[u]["current_q"]
                    = user_data'[u]["round_questions"][Counter(u, "round_index")' + 1]
              /\ Sent(outbox', u, "question")
              /\ ArgOf(outbox', u, "question") = user_data'[u]["current_q"].id]_vars

\* a round started over a round in which an answer had been scored, its
\* sampled list beginning with a question of unknown kind
C14_Witness ==
    \E u \in Players :
        /\ Sent(outbox, u, "welcome")
        /\ InRound(u)
        /\ seen_questions[u] # {}
        /\ rounds = <<>>
        /\ user_data[u]["round_questions"][1].type \notin Servable
        /\ Counter(u, "round_index") = 1

C16_PositionBound ==
    [][\A u \in Players :
          /\ InRound(u)' =>
                /\ Counter(u, "round_index")' >= 0
                /\ Counter(u, "round_index")' <= Len(user_data'[u]["round_questions"])
          /\ (InRound(u) /\ InRound(u)' /\ ~Sent(outbox', u, "welcome"))
                => /\ Counter(u, "round_index")' >= Counter(u, "round_index")
                   /\ user_data'[u]["round_questions"] = user_data[u]["round_questions"]
          /\ Graded(u) =>
                /\ InRound(u)
                /\ Counter(u, "round_index") < Len(user_data[u]["round_questions"])]_vars

\* after the round reached its end a button of its last prompt is pressed
\* again: nothing is graded
C16_Witness ==
    \E u \in Players :
        /\ ~InRound(u)
        /\ Sent(outbox, u, "no_round")
        /\ rounds # <<>>
        /\ Cardinality(seen_questions[u]) >= MIN_ROUND

\* the number of questions of chapter ch among the first n of the list qs
ServedOf(qs, n, ch) == Cardinality({i \in 1..Min(n, Len(qs)) : qs[i].chapter = ch})

\* the chapter totals a summary shows, added up
RECURSIVE SumTotals(_, _)
SumTotals(chapters, k) ==
    IF k = 0 THEN 0
    ELSE SumTotals(chapters, k - 1)
            + (IF CHAPTERS[k] \in DOMAIN chapters THEN chapters[CHAPTERS[k]][2] ELSE 0)

\* C17: round_chapter_total counts a question when it is served, not when it is
\* graded: as soon as a question is pending its chapter's total counts it, and
\* a question that is passed over, or left unanswered by an early end, stays
\* counted in the totals the summary shows.
C17_TotalsAtServe ==
    [][\A u \in Players :
          /\ InRound(u)' =>
                \A ch \in Range(CHAPTERS) :
                    user_data'[u]["round_chapter_total"][ch]
                       = ServedOf(user_data'[u]["round_questions"],
                                  Counter(u, "round_index")' + 1, ch)
          /\ Finished(u) =>
                LET qs == user_data[u]["round_questions"]
                    n == IF ArgOf(outbox', u, "summary").early
                         THEN Counter(u, "round_index") + 1 ELSE Len(qs)
                    shown == ArgOf(outbox', u, "summary").chapters
                IN /\ DOMAIN shown = {ch \in Range(CHAPTERS) : ServedOf(qs, n, ch) > 0}
                   /\ \A ch \in DOMAIN shown : shown[ch][2] = ServedOf(qs, n, ch)]_vars

\* a first round ended early with a question pending, after an answered
\* question and a question that was passed over: the totals count all three
C17_Witness ==
    \E u \in Players :
        /\ Sent(outbox, u, "summary")
        /\ ArgOf(outbox, u, "summary").early
        /\ Len(rounds) = 1
        /\ clock = 1
        /\ Cardinality(seen_questions[u]) = 1
        /\ SumTotals(ArgOf(outbox, u, "summary").chapters, Len(CHAPTERS)) = 3

\* a handler step of a round in progress that passed over at least one question
\* after grading an answer
GradedThenSkipped(u) ==
    /\ Graded(u)
    /\ SkipRun(user_data[u]["round_questions"], Counter(u, "round_index") + 1) > 0

\* C18 (as stated): a question of unknown kind is never left pending; serving
\* passes over it as if it had been answered wrongly: the position advances
\* past it, score and correct count are unchanged, the streak is reset to 0,
\* and the round goes on with the next question or finishes.
C18_SkipResetsStreak ==
    [][\A u \in Players :
          /\ InRound(u)' => user_data'[u]["current_q"].type \in Servable
          /\ GradedThenSkipped(u) =>
                /\ AfterIndex(u) = Counter(u, "round_index") + 1
                      + SkipRun(user_data[u]["round_questions"], Counter(u, "round_index") + 1)
                /\ AfterScore(u) = Counter(u, "round_score")
                      + (IF Sent(outbox', u, "correct") THEN 1 ELSE 0)
                /\ AfterCorrect(u) = Counter(u, "round_correct")
                      + (IF Sent(outbox', u, "correct") THEN 1 ELSE 0)
                /\ ~Finished(u) => Counter(u, "round_streak")' = 0]_vars

\* C18 (amended): a question of unknown kind is never left pending; serving
\* passes over it: the position advances past it and its chapter total counts
\* it, while score, correct count, bonus, the seen set and the streak are left
\* as the answer graded just before made them (the streak is not reset), and
\* the round goes on with the next question or finishes.
C18_SkipKeepsStreak ==
    [][\A u \in Players :
          /\ InRound(u)' => user_data'[u]["current_q"].type \in Servable
          /\ GradedThenSkipped(u) =>
                /\ AfterIndex(u) = Counter(u, "round_index") + 1
                      + SkipRun(user_data[u]["round_questions"], Counter(u, "round_index") + 1)
                /\ AfterScore(u) = Counter(u, "round_score")
                      + (IF Sent(outbox', u, "correct") THEN 1 ELSE 0)
                /\ AfterCorrect(u) = Counter(u, "round_correct")
                      + (IF Sent(outbox', u, "correct") THEN 1 ELSE 0)
                /\ AfterBonus(u) = Counter(u, "round_bonus")
                      + (IF Sent(outbox', u, "correct")
                         THEN ArgOf(outbox', u, "correct") ELSE 0)
                /\ seen_questions'[u] = seen_questions[u] \cup {user_data[u]["current_q"].id}
                /\ ~Finished(u) =>
                      Counter(u, "round_streak")'
                         = (IF Sent(outbox', u, "correct")
                            THEN Counter(u, "round_streak") + 1 ELSE 0)
                /\ Finished(u) \/ Sent(outbox', u, "question")]_vars

\* a correct answer after which a question was passed over: the streak stands
C18_Witness ==
    \E u \in Players :
        /\ InRound(u)
        /\ Sent(outbox, u, "correct")
        /\ Counter(u, "round_index") >= 2
        /\ user_data[u]["round_questions"][Counter(u, "round_index")].type \notin Servable
        /\ user_data[u]["round_questions"][Counter(u, "round_index")].id \notin seen_questions[u]
        /\ Counter(u, "round_streak") >= 2

\* C19: finish_round, reached by the answer to the last question or by the
\* player ending early, reports and records score, bonus and correct count as
\* the round's counters stand at that moment and total = len(round_questions),
\* not the number of questions answered; afterwards no round field and no
\* pending question is stored, and nothing is graded until start_round runs.
C19_EndOfRound ==
    [][\A u \in Players :
          /\ Finished(u) =>
                LET inc == IF Sent(outbox', u, "correct") THEN 1 ELSE 0
                    won == IF Sent(outbox', u, "correct") THEN ArgOf(outbox', u, "correct") ELSE 0
                    shown == ArgOf(outbox', u, "summary")
                    row == rounds'[Len(rounds')]
                IN /\ InRound(u)
                   /\ shown.early = ~Graded(u)
                   /\ shown.score = Counter(u, "round_score") + inc
                   /\ shown.correct = Counter(u, "round_correct") + inc
                   /\ shown.bonus = Counter(u, "round_bonus") + won
                   /\ shown.total = Len(user_data[u]["round_questions"])
                   /\ shown.total_score = shown.score + shown.bonus
                   /\ Len(rounds') = Len(rounds) + 1
                   /\ \A i \in 1..Len(rounds) : rounds'[i] = rounds[i]
                   /\ row.user_id = u
                   /\ row.score = shown.score
                   /\ row.bonus = shown.bonus
                   /\ row.correct = shown.correct
                   /\ row.total = shown.total
                   /\ user_data'[u] = EmptyDict
          /\ ~Finished(u) => rounds' = rounds
          /\ (~InRound(u) /\ ~Sent(outbox', u, "welcome"))
                => (~InRound(u)' /\ ~Graded(u) /\ ~Finished(u)
                    /\ "current_q" \notin DOMAIN user_data'[u])]_vars

\* a round ended early after a scored answer, fewer questions answered than
\* the round holds
C19_Witness ==
    \E u \in Players :
        /\ Sent(outbox, u, "summary")
        /\ ArgOf(outbox, u, "summary").early
        /\ ArgOf(outbox, u, "summary").score >= 1
        /\ ArgOf(outbox, u, "summary").total > Cardinality(seen_questions[u]) + 1
        /\ rounds # <<>>
        /\ rounds[Len(rounds)].total = ArgOf(outbox, u, "summary").total
        /\ user_data[u] = EmptyDict

(***************************************************************************)
(* ReloadSpec: the updates of Spec over the catalog of the whole pool,     *)
(* together with the admin's buttons: approve or reject a player's name,   *)
(* and reload the questions file, whose content may have changed or may    *)
(* fail to load (then _buckets_cache is {}).                               *)
(***************************************************************************)
WholePool == _build_chapter_buckets(PoolItems(1..MaxCatalog, MaxCatalog))

ReloadCatalogs ==
    {WholePool,
     _build_chapter_buckets(PoolItems((1..MaxCatalog) \ {1, 3}, MaxCatalog)),
     EmptyDict}

AdminButtons(u) ==
    {[kind |-> "admin_approve", uid |-> u], [kind |-> "admin_reject", uid |-> u],
     [kind |-> "admin_reload", uid |-> 0]}

\* admin_callback for the buttons above; new_count is the number of questions
\* the reload found
admin_callback(w0, a, data, new_count) ==
    LET w == Send(w0, a, "answer_query", data)
    IN IF ~is_admin(a) THEN Send(w, a, "no_permission", 0)
       ELSE CASE data.kind = "admin_approve" ->
                   Send(Send(approve_name(w, data.uid, a), data.uid, "name_approved", 0),
                        a, "approved", data.uid)
              [] data.kind = "admin_reject" ->
                   Send(Send(reject_name(w, data.uid, a), data.uid, "name_rejected", 0),
                        a, "rejected", data.uid)
              [] OTHER -> Send(w, a, "reloaded", new_count)

AdminCallback(a) ==
    /\ clock < MaxClock
    /\ \E u \in Players : \E data \in AdminButtons(u) : \E file \in ReloadCatalogs :
          /\ buckets' = IF is_admin(a) /\ data.kind = "admin_reload" THEN file ELSE buckets
          /\ Becomes(admin_callback([World EXCEPT !.clock = @ + 1], a, data,
                                    Len(AllItems(buckets'))))
    /\ UNCHANGED <<picked, normalized, observed>>

ReloadInit == InitWith({WholePool})

ReloadNext ==
    \/ \E u \in Players : PlayRound(u)
    \/ \E u \in Players : AnswerCallback(u)
    \/ \E u \in Players : TextMessage(u)
    \/ \E a \in ADMIN_IDS \cup Players : AdminCallback(a)

ReloadSpec == ReloadInit /\ [][ReloadNext]_vars

\* C20: a player's seen set only grows: no round start, answer, passed-over
\* question, early end, admin action or catalog reload removes an id from it.
C20_SeenOnlyGrows ==
    [][\A u \in Users : seen_questions[u] \subseteq seen_questions'[u]]_vars

\* after answers in a round the catalog was reloaded without a question the
\* player has seen, and the player answered again: the id is still in the set
C20_Witness ==
    \E u \in Players :
        /\ Cardinality(seen_questions[u]) >= 3
        /\ \E id \in seen_questions[u] : id \notin Ids(AllItems(buckets))
        /\ Sent(outbox, u, "correct") \/ Sent(outbox, u, "wrong")

(***************************************************************************)
(* IsolationSpec: the updates of two players, interleaved in any order,    *)
(* over the catalog of the whole pool: each starts a round, answers the    *)
(* pending question by a button or a text (the first MaxAnswered questions *)
(* of a round), ends the round, opens the name registration and submits a  *)
(* name.                                                                   *)
(***************************************************************************)
AliHelm == <<"ain", "lam", "yeh", " ", "hah", "lam", "meem">>
NameTexts == {AliHelm, <<"ain", "lam", "yeh", "hah", "lam", "meem">>}

SetName(u) == Becomes(menu_set_name(World, u)) /\ UNCHANGED <<buckets, picked, normalized, observed>>

SubmitName(u) ==
    /\ Get(user_data[u], "awaiting_name", FALSE)
    /\ \E text \in NameTexts : Text(u, text)

\* an answer to one of the first MaxAnswered questions of the round
AnswerEarly(u) ==
    /\ InRound(u)
    /\ user_data[u]["round_index"] < MaxAnswered
    /\ AnswerPending(u)

\* a player's first request of a round
StartFirst(u) ==
    /\ Get(user_attempts, u, <<>>) = <<>>
    /\ PlayRound(u)

IsolationInit == InitWith({WholePool})

IsolationNext ==
    \/ \E u \in Users : StartFirst(u)
    \/ \E u \in Users : AnswerEarly(u)
    \/ \E u \in Users : EndRound(u)
    \/ \E u \in Users : SetName(u)
    \/ \E u \in Users : SubmitName(u)

IsolationSpec == IsolationInit /\ [][IsolationNext]_vars

\* an update of player u is handled
EventOf(u) ==
    StartFirst(u) \/ AnswerEarly(u) \/ EndRound(u) \/ SetName(u) \/ SubmitName(u)

\* C21: player isolation: whatever the order of two players' updates, the
\* handling of an update of one player (round start, answer, text, end of
\* round, name registration) leaves the other player's round state, seen set
\* and rate-limit record as they were.
C21_PlayerIsolation ==
    [][\A a \in Users : \A b \in Users \ {a} :
          \/ /\ user_data'[b] = user_data[b]
             /\ seen_questions'[b] = seen_questions[b]
             /\ Get(user_attempts', b, <<>>) = Get(user_attempts, b, <<>>)
          \/ ~EventOf(a)]_vars

\* both players are in a round, one with a score, a seen question and a
\* recorded attempt, while the other, whose name is registered, has just
\* answered correctly
C21_Witness ==
    \E a \in Users : \E b \in Users \ {a} :
        /\ InRound(a) /\ InRound(b)
        /\ Counter(b, "round_score") >= 1
        /\ seen_questions[b] # {}
        /\ Get(user_attempts, b, <<>>) # <<>>
        /\ a \in DOMAIN pending_names
        /\ Sent(outbox, a, "correct")

(***************************************************************************)
(* GradeSpec: rounds over catalogs of one kind of question each, whose     *)
(* items differ in how the correct answer is written in the questions      *)
(* file; the player starts a round and answers the pending question by one *)
(* of the buttons of its prompt or by a typed text.                        *)
(***************************************************************************)
TaqaHarakiya == <<"alef", "lam", "tah", "alef", "qaf", "teh_marbuta", " ",
                  "alef", "lam", "hah", "reh", "kaf", "yeh", "teh_marbuta">>

\* the values of "correct" of the mcq items
StoredLabels == <<Str(<<"A">>), Str(<<"a">>), Str(<<" ", "b", "\n">>), Str(<<"B">>),
                  Str(<<"C">>), Str(<<>>), None>>

\* the values of "answer" and "correct" of the tf items
StoredTruths ==
    <<<<Bool(TRUE), None>>, <<Bool(FALSE), None>>, <<Str(<<"sad", "hah">>), None>>,
      <<Str(Khata), None>>, <<None, Bool(TRUE)>>, <<None, Str(<<"F", "a", "l", "s", "e">>)>>,
      <<Str(<<"beh">>), Bool(TRUE)>>, <<None, None>>, <<Str(<<"beh">>), Str(<<"beh">>)>>,
      <<Bool(FALSE), Bool(TRUE)>>, <<Str(Khata), Str(<<"t", "r", "u", "e">>)>>>>

\* the values of "term" of the term items
StoredTerms == <<TaqaHarakiya, AlGhaz, <<"sad", "lam", "beh">>,
                 <<"alef", "lam", "tah", "alef", "qaf", "heh">>, TaqaHarakiya>>

GradeCatalogs ==
    {_build_chapter_buckets([i \in 1..Len(StoredLabels) |->
         Item(i, "mcq", "ch1", i, StoredLabels[i], None, <<>>)]),
     _build_chapter_buckets([i \in 1..Len(StoredTruths) |->
         Item(i, "tf", "ch2", i, StoredTruths[i][2], StoredTruths[i][1], <<>>)]),
     _build_chapter_buckets([i \in 1..Len(StoredTerms) |->
         Item(i, "term", "ch3", i, None, None, StoredTerms[i])])}

\* the texts the player types: the term, the term with one more character, a
\* text of the term's length of which the first half is the term's, and others
GradeTexts ==
    {TaqaHarakiya,
     SubSeq(TaqaHarakiya, 1, 9) \o <<"lam">> \o SubSeq(TaqaHarakiya, 10, 14),
     SubSeq(TaqaHarakiya, 1, 7) \o <<"ghain", "zain", "sad", "ghain", "zain", "sad", "ghain">>,
     <<"ghain", "alef", "zain">>, <<"sad", "lam", "beh">>}

PressAnswer(u) == InRound(u) /\ \E data \in Genuine(u) : Callback(u, data)

TypeAnswer(u) == InRound(u) /\ \E text \in GradeTexts : Text(u, text)

GradeInit == InitWith(GradeCatalogs)

GradeNext ==
    \/ \E u \in Players : StartFresh(u)
    \/ \E u \in Players : PressAnswer(u)
    \/ \E u \in Players : TypeAnswer(u)

GradeSpec == GradeInit /\ [][GradeNext]_vars

\* the step handles a press of a button of the given kind while a question of
\* the given type is pending
PressedOn(u, type, kind) ==
    /\ InRound(u)
    /\ user_data[u]["current_q"].type = type
    /\ Sent(outbox', u, "answer_query")
    /\ ArgOf(outbox', u, "answer_query").kind = kind

\* the item of the catalog with the given id
ItemOf(id) == CHOOSE q \in Range(AllItems(buckets)) : q.id = id

\* C22: a label pressed on a multiple-choice question is graded, and graded
\* correct exactly when it equals the stored correct label without regard to
\* case and to the whitespace around the stored label; with no stored label
\* every label is graded incorrect.
C22_ChoiceGrading ==
    [][\A u \in Players :
          PressedOn(u, "mcq", "ans_mcq") =>
              LET stored == user_data[u]["current_q"].correct
                  label == ArgOf(outbox', u, "answer_query").arg
              IN /\ Graded(u)
                 /\ Sent(outbox', u, "correct") <=>
                        /\ stored.t = "str"
                        /\ Lower(<<label>>) = Lower(Strip(stored.s))]_vars

\* label B was pressed on the question whose stored label is " b\n" and graded
\* correct, after a press on the question with no stored label was graded wrong
C22_Witness ==
    \E u \in Players :
        /\ Sent(outbox, u, "correct")
        /\ Sent(outbox, u, "answer_query")
        /\ ArgOf(outbox, u, "answer_query").kind = "ans_mcq"
        /\ ArgOf(outbox, u, "answer_query").arg = "B"
        /\ ItemOf(ArgOf(outbox, u, "answer_query").msg).correct = Str(<<" ", "b", "\n">>)
        /\ \E id \in seen_questions[u] : ItemOf(id).correct = None
        /\ Counter(u, "round_score") = 1

\* the truth value the answer field gives when parse_tf_answer recognises it,
\* otherwise the one the correct field gives, otherwise false
CanonicalTruth(q) ==
    LET a == parse_tf_answer(q.answer)
        c == parse_tf_answer(q.correct)
    IN IF a.t = "bool" THEN a.b ELSE (c.t = "bool" /\ c.b)

\* C23 (as stated): a press of the true or the false button on a true/false
\* question is graded, and graded correct exactly when it names the question's
\* canonical truth value: the value of the answer field whenever that field is
\* recognised, as true or as false, the value of the correct field only when
\* it is not, and false when neither is recognised.
C23_BooleanGrading ==
    [][\A u \in Players :
          PressedOn(u, "tf", "ans_tf") =>
              LET q == user_data[u]["current_q"]
                  pressed == ArgOf(outbox', u, "answer_query").arg
              IN /\ Graded(u)
                 /\ Sent(outbox', u, "correct") <=> ((pressed = "true") = CanonicalTruth(q))]_vars

\* the step handles a typed text while a term question is pending
TypedOn(u) ==
    /\ InRound(u)
    /\ user_data[u]["current_q"].type = "term"
    /\ Get(user_data[u], "awaiting_term_answer", FALSE)
    /\ ~Sent(outbox', u, "answer_query")

\* r is c with exactly one more character
OneInserted(r, c) == Len(r) = Len(c) + 1 /\ \E i \in 1..Len(r) : Remove(r, i) = c

\* r is as long as c, begins with the first half of c and has none of c's
\* characters after it: the similarity ratio of the two is 1/2
HalfSimilar(r, c) ==
    /\ Len(r) = Len(c)
    /\ SubSeq(r, 1, Len(c) \div 2) = SubSeq(c, 1, Len(c) \div 2)
    /\ \A i \in (Len(c) \div 2 + 1)..Len(r) : r[i] \notin Range(c)

\* C24 (as stated): when the pending term has more than 7 characters after
\* normalization, a typed answer that is the term with exactly one inserted
\* character is graded correct, and a typed answer only half similar to the
\* term is graded incorrect.
C24_FuzzyThreshold ==
    [][\A u \in Players : \A text \in GradeTexts :
          (TypedOn(u) /\ Text(u, text)) =>
              LET c == normalize_arabic(user_data[u]["current_q"].term)
                  r == normalize_arabic(text)
              IN Len(c) > 7 =>
                    /\ OneInserted(r, c) => Sent(outbox', u, "correct")
                    /\ HalfSimilar(r, c) => Sent(outbox', u, "wrong")]_vars

(***************************************************************************)
(* NormSpec: normalize_arabic applied to a text of at most MaxLen           *)
(* characters over NormAlphabet, and then to its own results.              *)
(***************************************************************************)
NormAlphabet == {"beh", "alef", "alef_hamza_above", "alef_madda", "alef_maksura",
                 "teh_marbuta", "fatha", "tatweel", "p", "H", "1", "!", " ", "\n"}

NormTexts == UNION {[1..n -> NormAlphabet] : n \in 0..MaxLen}

NormInit == InitWith({EmptyDict})

Normalize ==
    /\ normalized = <<>>
    /\ \E text \in NormTexts : normalized' = <<text, normalize_arabic(text)>>
    /\ UNCHANGED <<buckets, user_data, seen_questions, rounds, outbox, clock, picked,
                   user_attempts, users, pending_names, observed>>

NormalizeAgain ==
    /\ normalized # <<>>
    /\ normalized' = <<normalized[2], normalize_arabic(normalized[2])>>
    /\ UNCHANGED <<buckets, user_data, seen_questions, rounds, outbox, clock, picked,
                   user_attempts, users, pending_names, observed>>

NormNext == Normalize \/ NormalizeAgain

NormSpec == NormInit /\ [][NormNext]_vars

\* C25: normalize_arabic is idempotent: applied to its own result for a text
\* over Arabic letters, hamza-bearing alefs, alef maksura, teh marbuta,
\* diacritics, tatweel, ASCII letters, digits, punctuation and whitespace, it
\* returns that result.
C25_Idempotent ==
    normalized # <<>> => normalize_arabic(normalized[2]) = normalized[2]

\* a text with a folded letter, a diacritic, a tatweel, punctuation and
\* whitespace was normalized to a shorter text, and that result normalized again
C25_Witness ==
    /\ normalized # <<>>
    /\ normalized[1] = normalized[2]
    /\ normalized[1] # <<>>
    /\ \E text \in NormTexts :
          /\ normalize_arabic(text) = normalized[1]
          /\ Len(text) > Len(normalized[1])
          /\ \E i \in 1..Len(text) : text[i] = "alef_hamza_above"
          /\ \E i \in 1..Len(text) : text[i] \in {"fatha", "tatweel", "!", " "}

\* the Arabic letters, ASCII letters and digits of a text, in order
LettersOf(text) ==
    SelectSeq(text, LAMBDA c : c \in (ArabicLetters \ {"arabic_comma"}) \cup AsciiLetters \cup Digits)

\* C26 (as stated): the result of normalize_arabic holds, in order, every
\* Arabic letter (folded), ASCII letter (lower-cased) and digit of the text
\* and, between them, only single spaces; in particular the result for a
\* non-empty text of ASCII letters is not empty.
C26_KeepsLetters ==
    normalized # <<>> =>
        LET text == normalized[1]
            result == normalized[2]
            kept == LettersOf(text)
        IN /\ SelectSeq(result, LAMBDA c : c # " ")
                 = [i \in 1..Len(kept) |-> FoldChar(LowerChar(kept[i]))]
           /\ (text # <<>> /\ \A i \in 1..Len(text) : text[i] \in AsciiLetters)
                 => result # <<>>

(***************************************************************************)
(* The top-up phases of pick_round_questions (SamplerSpec).                *)
(***************************************************************************)
\* the unseen questions of chapter ch
UnseenOf(bk, seen, ch) == SelectSeq(Get(bk, ch, <<>>), LAMBDA q : q.id \notin seen)

\* some chapter holds fewer unseen questions than its share while the catalog
\* holds at least ROUND_SIZE unseen questions
ShortChapter(u) ==
    /\ \E ch \in Range(CHAPTERS) :
          Len(UnseenOf(buckets, seen_questions[u], ch)) < target_per_chapter
    /\ Len(Unseen(buckets, seen_questions[u])) >= ROUND_SIZE

\* C27 (as stated): when some chapter holds fewer unseen questions than its
\* share of the round but the catalog, whose ids are pairwise distinct, holds
\* at least ROUND_SIZE unseen questions, pick_round_questions returns exactly
\* ROUND_SIZE questions, none of which the player has seen.
C27_LeftoverTopUp ==
    \A u \in Players :
        (/\ picked # <<>>
         /\ NoRepeatedId(AllItems(buckets))
         /\ ShortChapter(u))
        => /\ Len(picked[1]) = ROUND_SIZE
           /\ Ids(picked[1]) \cap seen_questions[u] = {}

(***************************************************************************)
(* RemainderSpec: the sampler calls of SamplerSpec over the catalogs with  *)
(* more than ROUND_SIZE questions, ids unique, whose chapters hold 1, 4,   *)
(* MaxPerChapter - 3 or MaxPerChapter questions.                           *)
(***************************************************************************)
RemainderCounts ==
    {c \in [1..Len(CHAPTERS) ->
              {1, target_per_chapter, MaxPerChapter - 3, MaxPerChapter}] :
        c[1] + c[2] + c[3] + c[4] + c[5] > ROUND_SIZE}

RemainderInit == InitWith({GenBuckets(counts, "unique") : counts \in RemainderCounts})

RemainderNext ==
    \/ \E u \in Players : Pick(u)
    \/ \E u \in Players : SeeRound(u)

RemainderSpec == RemainderInit /\ [][RemainderNext]_vars

\* C28 (as stated): the slots left over after each chapter has given its
\* share go to the chapter with the most unseen questions first: no chapter
\* gives more than its share to the round while a chapter with more unseen
\* questions than it still has an unseen question that is not in the round.
C28_GreedyRemainder ==
    \A u \in Players :
        picked # <<>> =>
            \A a, b \in Range(CHAPTERS) :
                LET unseen_a == Len(UnseenOf(buckets, seen_questions[u], a))
                    unseen_b == Len(UnseenOf(buckets, seen_questions[u], b))
                IN (unseen_a < unseen_b /\ FromChapter(picked[1], a) > target_per_chapter)
                      => FromChapter(picked[1], b) = unseen_b

GuardedKinds == {"edit_reply_markup", "name_request", "name_approved", "name_rejected"}

\* the sends of a handler execution at which a raised error ends it
RaisePoints(w) == {i \in 1..Len(w.out) : w.out[i].kind \notin GuardedKinds}

\* the world a handler execution leaves when its k-th send raises
Raised(w, k) ==
    [w.snaps[k] EXCEPT !.out = Append(@, [to |-> w.out[k].to, kind |-> "raised",
                                          arg |-> w.out[k].kind])]

\* the handler execution that would end in w is cut short by the transport
Fails(w) ==
    /\ failed_sends < MaxFailures
    /\ \E k \in RaisePoints(w) : Becomes(Raised(w, k))
    /\ failed_sends' = failed_sends + 1
    /\ UNCHANGED <<buckets, picked, normalized, admitted, notifications>>

PlayRoundFails(u) ==
    /\ clock < MaxClock
    /\ \E rng \in Seeds : Fails(menu_play_round([World EXCEPT !.clock = @ + 1], u, rng))

CallbackFails(u) == \E data \in CallbackUpdates(u) : Fails(answer_callback(World, u, data))

TextFails(u) == \E text \in Texts : Fails(text_router(World, u, text))

FailInit == InitWith({WholePool})

FailNext ==
    \/ \E u \in Players : PlayRound(u)
    \/ \E u \in Players : AnswerCallback(u)
    \/ \E u \in Players : TextMessage(u)
    \/ \E u \in Players : PlayRoundFails(u)
    \/ \E u \in Players : CallbackFails(u)
    \/ \E u \in Players : TextFails(u)

FailSpec == FailInit /\ [][FailNext]_vars

\* the tallies of the round in progress
Tallies(u) == <<Get(user_data[u], "round_chapter_correct", EmptyDict),
                Get(user_data[u], "round_chapter_total", EmptyDict)>>

\* C35: each question of a round is graded at most once, also when a send
\* raises inside apply_answer_result or send_next_question: a handler
\* execution that leaves the round in progress either leaves the grading of
\* the pending question undone (score, correct count, streak, bonus and
\* category_correct as before, nothing marked seen, the position as before) or
\* has done it as a whole (counters updated, the question marked seen and the
\* position past it), so that the score never exceeds the position.
C35_GradedAtomically ==
    [][\A u \in Players :
          (/\ InRound(u) /\ "current_q" \in DOMAIN user_data[u]
           /\ InRound(u)' /\ ~Sent(outbox', u, "menu_query")) =>
              LET q == user_data[u]["current_q"]
                  regraded == \/ \E k \in CounterKeys \ {"round_index"} :
                                     Counter(u, k)' # Counter(u, k)
                              \/ Tallies(u)'[1] # Tallies(u)[1]
                  advanced == Counter(u, "round_index")' > Counter(u, "round_index")
                  marked == seen_questions'[u] # seen_questions[u]
              IN /\ regraded => advanced
                 /\ marked => advanced
                 /\ advanced => (q.id # 0 => q.id \in seen_questions'[u])
                 /\ Counter(u, "round_score")' <= Counter(u, "round_index")']_vars

\* the values of a tally added up over the chapters 1..k
RECURSIVE SumOver(_, _)
SumOver(tally, k) ==
    IF k = 0 THEN 0 ELSE SumOver(tally, k - 1) + Get(tally, CHAPTERS[k], 0)

\* the number of questions of the round in progress served so far
ServedCount(u) ==
    IF "current_q" \in DOMAIN user_data[u]
    THEN Min(Counter(u, "round_index") + 1, Len(user_data[u]["round_questions"]))
    ELSE 0

RegisterInit == InitWith({WholePool})

RegisterNext ==
    \/ \E u \in Players : PlayRound(u)
    \/ \E u \in Players : AnswerCallback(u)
    \/ \E u \in Players : TextMessage(u)
    \/ \E u \in Players : SetName(u)
    \/ \E u \in Players : SubmitName(u)

RegisterSpec == RegisterInit /\ [][RegisterNext]_vars

\* C32: free-text answers are always accepted while a free-text question is
\* pending: in every state of a round in progress the flag
\* awaiting_term_answer is true exactly when the pending question is of kind
\* term, also after the player has tapped the set-name button or submitted a
\* name during the round.
C32_TermFlag ==
    \A u \in Users :
        (InRound(u) /\ "current_q" \in DOMAIN user_data[u]) =>
            (Get(user_data[u], "awaiting_term_answer", FALSE)
                <=> user_data[u]["current_q"].type = "term")

\* the step takes the round in progress of player u out of user_data
RoundCleared(u) == ~InRound(u)'

\* the step writes another sequence, or a lower score, bonus, correct count or
\* position, over the round in progress
RoundOverwritten(u) ==
    /\ InRound(u)'
    /\ \/ user_data'[u]["round_questions"] # user_data[u]["round_questions"]
       \/ \E k \in {"round_score", "round_bonus", "round_correct", "round_index"} :
              Counter(u, k)' < Counter(u, k)

\* the step inserted the row of the round in progress into rounds
RoundRecorded(u) ==
    /\ Len(rounds') = Len(rounds) + 1
    /\ LET row == rounds'[Len(rounds')]
       IN /\ row.user_id = u
          /\ row.total = Len(user_data[u]["round_questions"])
          /\ row.score >= Counter(u, "round_score")
          /\ row.bonus >= Counter(u, "round_bonus")
          /\ row.correct >= Counter(u, "round_correct")

\* C33: no round result is lost: the state of a round in progress (sequence,
\* score, bonus, correct count) is cleared or overwritten only by a handler
\* execution in which save_round_result records that round; a play_round
\* request during a round does not discard the round's points unrecorded.
C33_NoRoundLost ==
    [][\A u \in Players :
          (InRound(u) /\ (RoundCleared(u) \/ RoundOverwritten(u))) => RoundRecorded(u)]_vars

\* total_points and rounds_played of the player's row of users
UserTotals(u) ==
    IF u \in DOMAIN users THEN <<users[u].total_points, users[u].rounds_played>> ELSE <<0, 0>>

\* C34: a finished round is recorded exactly once.  The handler execution that
\* finishes a round (by completion or by early end) inserts one row into rounds,
\* adds the row's score and bonus to total_points and 1 to rounds_played, and
\* leaves no round in progress; every other execution leaves rounds and the
\* totals alone; and while no round is in progress, an answer or end_round
\* callback or a text message changes no counter and marks no question seen.
C34_RecordedOnce ==
    [][\A u \in Players :
          /\ IF Finished(u)
             THEN /\ InRound(u) /\ ~InRound(u)'
                  /\ Len(rounds') = Len(rounds) + 1
                  /\ SubSeq(rounds', 1, Len(rounds)) = rounds
                  /\ LET row == rounds'[Len(rounds')]
                     IN /\ row.user_id = u
                        /\ UserTotals(u)' = <<UserTotals(u)[1] + row.score + row.bonus,
                                              UserTotals(u)[2] + 1>>
             ELSE /\ rounds' = rounds
                  /\ UserTotals(u)' = UserTotals(u)
          /\ (~InRound(u) /\ ~Sent(outbox', u, "menu_query")) =>
                /\ ~InRound(u)'
                /\ Counters(u)' = Counters(u)
                /\ Tallies(u)' = Tallies(u)
                /\ seen_questions'[u] = seen_questions[u]
                /\ rounds' = rounds
                /\ UserTotals(u)' = UserTotals(u)]_vars

\* two rounds were finished, one with points, and the player then tapped a
\* button of an old prompt: the rows and the totals count each round once
C34_Witness ==
    \E u \in Players :
        /\ ~InRound(u)
        /\ Len(rounds) = 2
        /\ Sent(outbox, u, "no_round")
        /\ UserTotals(u)[2] = 2
        /\ UserTotals(u)[1] > 0
        /\ UserTotals(u)[1] = rounds[1].score + rounds[1].bonus + rounds[2].score + rounds[2].bonus

\* what a response of the wrong kind must leave alone: score, streak, bonus,
\* correct count and position, both tallies, the pending question and the
\* seen set
RoundView(u) ==
    <<Counters(u), Tallies(u), Get(user_data[u], "current_q", NoItem), seen_questions[u]>>

PendingType(u) ==
    IF InRound(u) /\ "current_q" \in DOMAIN user_data[u]
    THEN user_data[u]["current_q"].type
    ELSE "none"

\* a choice button pressed while the pending question is boolean or free-text,
\* or a boolean button pressed while it is choice or free-text
Mismatched(u, data) ==
    \/ data.kind = "ans_mcq" /\ PendingType(u) \in {"tf", "term"}
    \/ data.kind = "ans_tf" /\ PendingType(u) \in {"mcq", "term"}

\* the handler execution that ends in the primed state is answer_callback's
\* (it acknowledged the callback query) or text_router's (no query acknowledged)
IsCallback(u) == Sent(outbox', u, "answer_query")
IsText(u) == ~Sent(outbox', u, "answer_query") /\ ~Sent(outbox', u, "menu_query")

\* C36: responses of the wrong kind change nothing.  A choice callback handled
\* while the pending question is boolean or free-text, a boolean callback
\* handled while it is choice or free-text, and a text message handled while
\* it is choice or boolean leave score, streak, bonus, correct count,
\* position, tallies, pending question and seen set as they were.
C36_MismatchIgnored ==
    [][\A u \in Players :
          /\ (IsCallback(u) /\ Mismatched(u, ArgOf(outbox', u, "answer_query"))) =>
                RoundView(u)' = RoundView(u)
          /\ (IsText(u) /\ PendingType(u) \in {"mcq", "tf"}) =>
                RoundView(u)' = RoundView(u)]_vars

\* a boolean button of an older prompt was pressed while a free-text question
\* was pending, in a round that already has points
C36_Witness ==
    \E u \in Players :
        /\ PendingType(u) = "term"
        /\ Sent(outbox, u, "unexpected")
        /\ Sent(outbox, u, "answer_query")
        /\ ArgOf(outbox, u, "answer_query").kind = "ans_tf"
        /\ Counter(u, "round_score") > 0

(***************************************************************************)
(* RateSpec: play_round requests of one player over wall-clock time.  The  *)
(* clock counts seconds; it stands still while a request is handled and    *)
(* advances between requests by one of TickSteps.  admitted keeps, for     *)
(* each player, the latest RATE_LIMIT_ATTEMPTS + 1 times at which a        *)
(* request was passed on to start_round.                                   *)
(***************************************************************************)
TickSteps == {29, 30, 31}

Latest(seq, n) == IF Len(seq) <= n THEN seq ELSE SubSeq(seq, Len(seq) - n + 1, Len(seq))

\* start_round ran in the handler execution that ends in the primed state
ReachedStartRound(u) == Sent(outbox', u, "welcome") \/ Sent(outbox', u, "not_enough")

Request(u) ==
    /\ \E rng \in Seeds : Becomes(menu_play_round(World, u, rng))
    /\ admitted' = [admitted EXCEPT ![u] =
                        IF ReachedStartRound(u)
                        THEN Latest(Append(@, clock), RATE_LIMIT_ATTEMPTS + 1)
                        ELSE @]
    /\ UNCHANGED <<buckets, picked, normalized, failed_sends, notifications>>

Tick ==
    /\ \E d \in TickSteps :
          /\ clock + d <= MaxTime
          /\ clock' = clock + d
    /\ outbox' = <<>>
    /\ UNCHANGED <<buckets, user_data, seen_questions, rounds, picked, user_attempts,
                   users, pending_names, normalized, observed>>

RateInit == InitWith({WholePool})

RateNext ==
    \/ \E u \in Players : Request(u)
    \/ Tick

RateSpec == RateInit /\ [][RateNext]_vars

Recorded(u) == Get(user_attempts, u, <<>>)

Oldest(seq) == CHOOSE t \in Range(seq) : \A x \in Range(seq) : t <= x

\* C37: rate limit on starting rounds.  Of any RATE_LIMIT_ATTEMPTS + 1
\* requests of a player that reach start_round, the first and the last are at
\* least RATE_LIMIT_WINDOW seconds apart (no window of RATE_LIMIT_WINDOW
\* seconds holds more than RATE_LIMIT_ATTEMPTS of them); a request that is
\* refused leaves, of the recorded attempts, those of the window and records
\* nothing; and a request made when the oldest recorded attempt is
\* RATE_LIMIT_WINDOW seconds old or older reaches start_round.
C37_RateLimit ==
    [][\A u \in Players :
          /\ Len(admitted'[u]) > RATE_LIMIT_ATTEMPTS =>
                admitted'[u][Len(admitted'[u])] - admitted'[u][Len(admitted'[u]) - RATE_LIMIT_ATTEMPTS]
                    >= RATE_LIMIT_WINDOW
          /\ Sent(outbox', u, "rate_limited") =>
                /\ user_attempts'[u] =
                       SelectSeq(Recorded(u), LAMBDA t : t > clock - RATE_LIMIT_WINDOW)
                /\ admitted' = admitted
                /\ UNCHANGED <<user_data, rounds, seen_questions>>
          /\ (Sent(outbox', u, "menu_query") /\ Recorded(u) # <<>>
                /\ clock - Oldest(Recorded(u)) >= RATE_LIMIT_WINDOW) =>
                ReachedStartRound(u)]_vars

\* the player was admitted RATE_LIMIT_ATTEMPTS times, then refused, waited
\* until the attempts were RATE_LIMIT_WINDOW seconds old and was admitted again
C37_Witness ==
    \E u \in Players :
        /\ Len(admitted[u]) = RATE_LIMIT_ATTEMPTS + 1
        /\ admitted[u][1] = 0
        /\ admitted[u][RATE_LIMIT_ATTEMPTS] = 0
        /\ admitted[u][RATE_LIMIT_ATTEMPTS + 1] = RATE_LIMIT_WINDOW
        /\ Sent(outbox, u, "welcome")
        /\ Len(Recorded(u)) = 1

(***************************************************************************)
(* NameSpec: name registration under review.  Users open the registration  *)
(* and submit names; every accepted submission puts a notification with    *)
(* the name and an approve and a reject button into each admin's chat,     *)
(* where it stays; an admin taps a button of any notification received so  *)
(* far.  The buttons carry the user id only (admin_pending_keyboard).      *)
(***************************************************************************)
HelmAli == <<"hah", "lam", "meem", " ", "ain", "lam", "yeh">>
SubmittedNames == NameTexts \cup {HelmAli}

\* the notifications the handler execution that ends in the primed state sent
NewNotifications ==
    {[to |-> outbox'[i].to, uid |-> outbox'[i].arg.uid, full_name |-> outbox'[i].arg.full_name] :
        i \in {j \in 1..Len(outbox') : outbox'[j].kind = "name_request"}}

SendName(u) ==
    /\ Get(user_data[u], "awaiting_name", FALSE)
    /\ \E text \in SubmittedNames : Becomes(text_router(World, u, text))
    /\ notifications' = notifications \cup NewNotifications
    /\ UNCHANGED <<buckets, picked, normalized, failed_sends, admitted>>

\* the admin taps a button under notification n; msg is the name n shows
ReviewTap(a) ==
    /\ \E n \in notifications : \E kind \in {"admin_approve", "admin_reject"} :
          /\ n.to = a
          /\ Becomes(admin_callback(World, a, [kind |-> kind, uid |-> n.uid, msg |-> n.full_name], 0))
    /\ UNCHANGED <<buckets, picked, normalized, observed>>

NameInit == InitWith({WholePool})

NameNext ==
    \/ \E u \in Users : SetName(u)
    \/ \E u \in Users : SendName(u)
    \/ \E a \in ADMIN_IDS : ReviewTap(a)

NameSpec == NameInit /\ [][NameNext]_vars

FullName(u) == IF u \in DOMAIN users THEN users[u].full_name ELSE None

\* C38: the approved name is the reviewed name.  When an admin taps approve
\* under a notification, the full_name of the user's row becomes the name
\* that notification shows, however the tap interleaves with further
\* submissions of the user and with other taps; and a full_name changes only
\* in the handling of an admin's approve tap for that user.
C38_ApprovedIsReviewed ==
    [][\A u \in Users :
          /\ \A a \in ADMIN_IDS :
                (/\ Sent(outbox', a, "approved")
                 /\ ArgOf(outbox', a, "approved") = u) =>
                    FullName(u)' = Str(ArgOf(outbox', a, "answer_query").msg)
          /\ FullName(u)' # FullName(u) =>
                \E a \in ADMIN_IDS : /\ Sent(outbox', a, "approved")
                                     /\ ArgOf(outbox', a, "approved") = u]_vars

\* the second half alone: only an approve tap writes full_name
OnlyApproveWritesFullName ==
    [][\A u \in Users :
          FullName(u)' # FullName(u) =>
              \E a \in ADMIN_IDS : /\ Sent(outbox', a, "approved")
                                   /\ ArgOf(outbox', a, "approved") = u]_vars

(***************************************************************************)
(* _classify_chapter and ClassifySpec: questions files of up to MaxItems   *)
(* items are loaded; every item is classified from its text and put into   *)
(* the bucket of its chapter.  An item of a file is the record of its      *)
(* fields as written (a str or None each); the classified item keeps it    *)
(* as its text.  CHAPTERS[k] stands for the k-th chapter name.             *)
(***************************************************************************)
CHAPTER_KEYWORDS ==
    [ch \in Range(CHAPTERS) |->
        CASE ch = "ch1" -> <<<<"alef", "lam", "tah", "reh", "yeh", "qaf", "heh", " ", "alef", "lam", "ain", "lam", "meem", "yeh", "heh">>,
                       <<"feh", "reh", "dad", "yeh", "heh">>,
                       <<"meem", "teh", "ghain", "yeh", "reh">>,
                       <<"theh", "alef", "beh", "teh">>,
                       <<"meem", "lam", "alef", "hah", "zah", "heh">>,
                       <<"teh", "jeem", "reh", "beh", "heh">>,
                       <<"alef", "seen", "teh", "noon", "teh", "alef", "jeem">>,
                       <<"teh", "waw", "alef", "sad", "lam">>,
                       <<"ain", "lam", "meem", " ", "alef", "lam", "alef", "theh", "alef", "reh">>,
                       <<"alef", "lam", "reh", "alef", "dal", "alef", "reh">>>>
          [] ch = "ch2" -> <<<<"meem", "khah", "lam", "waw", "tah">>,
                       <<"meem", "hah", "lam", "waw", "lam">>,
                       <<"meem", "thal", "yeh", "beh">>,
                       <<"meem", "thal", "alef", "beh">>,
                       <<"teh", "reh", "kaf", "yeh", "zain">>,
                       <<"thal", "alef", "yeh_hamza", "beh", "yeh", "heh">>,
                       <<"hah", "meem", "dad">>,
                       <<"qaf", "alef", "ain", "dal", "heh">>,
                       <<"teh", "ain", "alef", "dal", "lam">>,
                       <<"teh", "reh", "seen", "beh">>,
                       <<"p", "h">>,
                       <<"alef", "yeh", "waw", "noon", "yeh">>,
                       <<"teh", "seen", "alef", "heh", "meem", "yeh">>>>
          [] ch = "ch3" -> <<<<"sad", "lam", "beh">>,
                       <<"seen", "alef", "yeh_hamza", "lam">>,
                       <<"ghain", "alef", "zain">>,
                       <<"beh", "lam", "alef", "zain", "meem", "alef">>,
                       <<"alef", "noon", "sad", "heh", "alef", "reh">>,
                       <<"teh", "beh", "khah", "reh">>,
                       <<"teh", "kaf", "alef", "theh", "feh">>,
                       <<"teh", "jeem", "meem", "dal">>,
                       <<"teh", "seen", "alef", "meem", "yeh">>,
                       <<"dad", "ghain", "tah">>,
                       <<"kaf", "theh", "alef", "feh", "heh">>,
                       <<"teh", "waw", "teh", "reh", " ", "seen", "tah", "hah", "yeh">>,
                       <<"lam", "zain", "waw", "jeem">>>>
          [] ch = "ch4" -> <<<<"tah", "alef", "qaf", "heh">>,
                       <<"hah", "reh", "kaf", "yeh", "heh">>,
                       <<"waw", "dad", "ain">>,
                       <<"kaf", "alef", "meem", "noon", "heh">>,
                       <<"alef", "sheen", "ain", "alef", "ain", "yeh", "heh">>,
                       <<"kaf", "yeh", "meem", "yeh", "alef", "yeh_hamza", "yeh", "heh">>,
                       <<"kaf", "heh", "reh", "beh", "alef", "yeh_hamza", "yeh", "heh">>,
                       <<"noon", "waw", "waw", "yeh", "heh">>,
                       <<"teh", "waw", "reh", "beh", "yeh", "noon">>,
                       <<"meem", "waw", "lam", "dal">>,
                       <<"khah", "lam", "yeh", "heh", " ", "sheen", "meem", "seen", "yeh", "heh">>,
                       <<"hah", "feh", "zah", " ", "alef", "lam", "tah", "alef", "qaf", "heh">>>>
          [] ch = "ch5" -> <<<<"dal", "meem">>,
                       <<"qaf", "lam", "beh">>,
                       <<"sheen", "reh", "yeh", "alef", "noon">>,
                       <<"waw", "reh", "yeh", "dal">>,
                       <<"sheen", "ain", "yeh", "reh", "heh">>,
                       <<"meem", "noon", "alef", "ain", "heh">>,
                       <<"alef", "jeem", "seen", "alef", "meem", " ", "meem", "dad", "alef", "dal", "heh">>,
                       <<"meem", "waw", "lam", "dal", "alef", "teh", " ", "alef", "lam", "dad", "dal">>,
                       <<"alef", "yeh", "dal", "zain">>,
                       <<"seen", "kaf", "reh", "yeh">>,
                       <<"heh", "dad", "meem">>,
                       <<"meem", "ain", "dal", "heh">>,
                       <<"alef", "meem", "ain", "alef", "hamza">>,
                       <<"reh", "yeh_hamza", "heh">>,
                       <<"teh", "noon", "feh", "seen">>,
                       <<"kaf", "lam", "yeh", "heh">>,
                       <<"beh", "waw", "lam">>>>]

DefaultChapter == CHAPTERS[3]              \* best_chapter = "حالات المادة"

RECURSIVE Join(_)
Join(strs) ==
    IF strs = <<>> THEN <<>>
    ELSE IF Len(strs) = 1 THEN strs[1]
    ELSE strs[1] \o <<" ">> \o Join(Tail(strs))

\* the text of an item that is searched for keywords
Blob(item) ==
    CASE item.type = "mcq" ->
            OrEmpty(item.question) \o <<" ">>
                \o Join([i \in 1..Len(item.options) |-> PyStr(item.options[i])])
      [] item.type = "tf" -> OrEmpty(item.statement)
      [] item.type = "term" -> OrEmpty(item.term) \o <<" ">> \o OrEmpty(item.definition)
      [] OTHER -> <<>>

\* normalize_arabic(kw) of every keyword, computed once
NormalizedKeywords ==
    [ch \in Range(CHAPTERS) |->
        [i \in 1..Len(CHAPTER_KEYWORDS[ch]) |-> normalize_arabic(CHAPTER_KEYWORDS[ch][i])]]

\* the score of a chapter: the keywords kw with normalize_arabic(kw) in blob_n
Hits(ch, blob_n) ==
    Cardinality({i \in 1..Len(CHAPTER_KEYWORDS[ch]) :
                    /\ CHAPTER_KEYWORDS[ch][i] # <<>>
                    /\ IsInfix(NormalizedKeywords[ch][i], blob_n)})

\* the loop over CHAPTER_KEYWORDS.items(): <<best_chapter, best_score>> after
\* the first k chapters
RECURSIVE BestAfter(_, _)
BestAfter(blob_n, k) ==
    IF k = 0 THEN <<DefaultChapter, 0>>
    ELSE LET best == BestAfter(blob_n, k - 1)
             score == Hits(CHAPTERS[k], blob_n)
         IN IF score > best[2] THEN <<CHAPTERS[k], score>> ELSE best

_classify_chapter(item) == BestAfter(normalize_arabic(Blob(item)), Len(CHAPTERS))[1]

RawItems ==
    <<
      [type |-> "tf", question |-> None,
       options |-> <<>>,
       statement |-> Str(<<"alef", "lam", "meem", "alef", "hamza", " ", "meem", "heh", "meem">>), term |-> None,
       definition |-> None],
      [type |-> "tf", question |-> None,
       options |-> <<>>,
       statement |-> Str(<<"alef", "lam", "ghain", "alef", "zain", " ", "yeh", "meem", "lam", "alef_hamza_above", " ", "alef", "lam", "waw", "ain", "alef", "hamza">>), term |-> None,
       definition |-> None],
      [type |-> "mcq", question |-> Str(<<"meem", "alef", " ", "waw", "zah", "yeh", "feh", "teh_marbuta", " ", "alef", "lam", "qaf", "lam", "beh">>),
       options |-> <<Str(<<"dad", "khah", " ", "alef", "lam", "dal", "meem">>), Str(<<"alef", "lam", "heh", "dad", "meem">>)>>,
       statement |-> None, term |-> None,
       definition |-> None],
      [type |-> "term", question |-> None,
       options |-> <<>>,
       statement |-> None, term |-> Str(<<"alef", "lam", "feh", "reh", "dad", "yeh", "teh_marbuta">>),
       definition |-> Str(<<"teh", "khah", "meem", "yeh", "noon", " ", "ain", "lam", "meem", "yeh">>)],
      [type |-> "tf", question |-> None,
       options |-> <<>>,
       statement |-> Str(<<"p", "H", " ", "alef", "lam", "meem", "hah", "lam", "waw", "lam", " ", "alef", "lam", "hah", "meem", "dad", "yeh">>), term |-> None,
       definition |-> None],
      [type |-> "mcq", question |-> Str(<<"alef", "lam", "tah", "alef", "qaf", "teh_marbuta", " ", "alef", "lam", "hah", "reh", "kaf", "yeh", "teh_marbuta">>),
       options |-> <<Str(<<"sad", "lam", "beh">>), Str(<<"seen", "alef", "yeh_hamza", "lam">>)>>,
       statement |-> None, term |-> None,
       definition |-> None],
      [type |-> "essay", question |-> Str(<<"meem", "alef", " ", "alef", "lam", "ghain", "alef", "zain">>),
       options |-> <<>>,
       statement |-> None, term |-> None,
       definition |-> None],
      [type |-> "tf", question |-> None,
       options |-> <<>>,
       statement |-> Str(<<"dad", "ghain", "tah", " ", "alef", "lam", "dal", "meem">>), term |-> None,
       definition |-> None]
    >>

QuestionFiles == UNION {[1..n -> Range(RawItems)] : n \in 1..MaxItems}

\* _load_questions up to the buckets: item["_chapter"] = _classify_chapter(item)
ChapterOf == [item \in Range(RawItems) |-> _classify_chapter(item)]

Classified(items) ==
    [i \in 1..Len(items) |->
        Item(i, items[i].type, ChapterOf[items[i]], items[i], None, None,
             OrEmpty(items[i].term))]

LoadQuestions ==
    /\ \E items \in QuestionFiles : buckets' = _build_chapter_buckets(Classified(items))
    /\ UNCHANGED <<user_data, seen_questions, rounds, outbox, clock, picked,
                   user_attempts, users, pending_names, normalized, observed>>

ClassifyInit == InitWith({EmptyDict})

ClassifyNext == LoadQuestions

ClassifySpec == ClassifyInit /\ [][ClassifyNext]_vars

\* a text as it is searched: diacritics removed, letters folded, ASCII letters
\* lower-cased, everything but letters and digits turned into single spaces
Searchable(text) ==
    LET nodiac == SelectSeq(Strip(text), LAMBDA c : c \notin Diacritics)
        kept == [i \in 1..Len(nodiac) |->
                    IF nodiac[i] \in ArabicBlock \cup Digits \cup Whitespace \cup AsciiLetters
                    THEN nodiac[i] ELSE " "]
        spaced == Strip(CollapseSpaces(kept))
    IN [i \in 1..Len(spaced) |-> FoldChar(LowerChar(spaced[i]))]

\* the number of the chapter's keywords the item's text contains
KeywordHits(ch, item) ==
    Cardinality({i \in 1..Len(CHAPTER_KEYWORDS[ch]) :
                    IsInfix(Searchable(CHAPTER_KEYWORDS[ch][i]), Searchable(Blob(item)))})

\* the first chapter, in chapter order, of the highest keyword-hit count; the
\* default chapter for a text without keywords
ChapterByHits(item) ==
    IF \A ch \in Range(CHAPTERS) : KeywordHits(ch, item) = 0 THEN DefaultChapter
    ELSE CHAPTERS[CHOOSE k \in 1..Len(CHAPTERS) :
                     /\ \A j \in 1..Len(CHAPTERS) :
                           KeywordHits(CHAPTERS[j], item) <= KeywordHits(CHAPTERS[k], item)
                     /\ \A j \in 1..(k - 1) :
                           KeywordHits(CHAPTERS[j], item) < KeywordHits(CHAPTERS[k], item)]

ChapterByHitsOf == [item \in Range(RawItems) |-> ChapterByHits(item)]

\* C39 (as stated): every item of the catalog is in the bucket of exactly one
\* configured chapter, the first in chapter order among those with the highest
\* count of keywords found in the item's text; an item whose text contains no
\* listed keyword is in the bucket of the default chapter.
C39_ClassifiedByKeywords ==
    /\ DOMAIN buckets \subseteq Range(CHAPTERS)
    /\ \A ch \in DOMAIN buckets : \A i \in 1..Len(buckets[ch]) :
          LET q == buckets[ch][i]
          IN /\ q.chapter = ch
             /\ \A other \in DOMAIN buckets \ {ch} :
                   \A j \in 1..Len(buckets[other]) : buckets[other][j].id # q.id
             /\ ch = ChapterByHitsOf[q.text]

\* what the code computes: the first chapter of the highest score, where the
\* score counts the keywords whose normalized form is found, the empty one of
\* "ph" included
Scores ==
    [item \in Range(RawItems) |->
        [ch \in Range(CHAPTERS) |-> Hits(ch, normalize_arabic(Blob(item)))]]

ClassifiedByScore ==
    \A ch \in DOMAIN buckets : \A i \in 1..Len(buckets[ch]) :
        LET score(c) == Scores[buckets[ch][i].text][c]
            pos == CHOOSE k \in 1..Len(CHAPTERS) : CHAPTERS[k] = ch
        IN /\ \A j \in 1..Len(CHAPTERS) : score(CHAPTERS[j]) <= score(ch)
           /\ \A j \in 1..(pos - 1) : score(CHAPTERS[j]) < score(ch)
           /\ score(CHAPTERS[2]) >= 1

====
